---- MODULE Spec2Model ----
(***************************************************************************)
(* Model of the STM32 data logger server (the STM32RTC firmware with the   *)
(* RF24 command protocol): the real-time clock, the per-day log files on   *)
(* the SD card, the retention clean-up, the sampling cycle driven by the   *)
(* RTC alarm, and the request/response handlers of waitForCommand.         *)
(*                                                                         *)
(* Texts (file names, CSV lines, time labels) are sequences of one-char    *)
(* strings, so that formatting and parsing are computed as the code        *)
(* computes them.                                                          *)
(***************************************************************************)
EXTENDS Integers, Sequences, FiniteSets, TLC

----------------------------------------------------------------------------
(* Program constants *)

CMD_REQUEST_DATA == 1
CMD_SEND_DATA    == 2
CMD_LIST_FILES   == 3
CMD_FILE_LIST    == 4
CMD_MODIFY_RTC   == 5
CMD_GET_RTC_INFO == 6
CMD_LIST_START   == 36
CMD_LIST_END     == 37

RTC_KEY_MONTH  == 1
RTC_KEY_DAY    == 2
RTC_KEY_HOUR   == 3
RTC_KEY_MINUTE == 4
RTC_KEY_SECOND == 5
RTC_KEY_YEAR   == 6

MINUTES_PER_DAY     == 1440
MAX_FILENAME_LENGTH == 13
SETUP_INTERVAL      == 5
DEFAULT_INTERVAL    == 10
RTC_INVALID         == 255

(* The two array capacities, scaled down from 50 and 360 (MAX_FILES <      *)
(* MAX_DAYS as in the source) so that a store can hold more files than     *)
(* either array.                                                           *)
MAX_FILES == 2
MAX_DAYS  == 3

(* Bounds of the exploration *)
MaxEvents == 2      \* alarm fires plus accepted clock writes per run
MaxOldFiles == 5    \* files found on the card at power-on

----------------------------------------------------------------------------
(* Text: characters, printing and parsing of integers, comparison *)

Digits == <<"0", "1", "2", "3", "4", "5", "6", "7", "8", "9">>

DigitChar(d) == Digits[d + 1]

IsDigit(c) == \E i \in 1..10 : Digits[i] = c

DigitVal(c) == (CHOOSE i \in 1..10 : Digits[i] = c) - 1

\* Print::print(unsigned) : decimal digits, no padding
RECURSIVE PrintInt(_)
PrintInt(n) ==
  IF n < 10 THEN <<DigitChar(n)>>
  ELSE PrintInt(n \div 10) \o <<DigitChar(n % 10)>>

\* a "%d" in the place of the "%02d": no padding
Fmt02dUnpadded(n) == PrintInt(n)

\* sprintf "%02d" : at least two digits, zero padded
Fmt02d(n) == IF n < 10 THEN <<"0", DigitChar(n)>> ELSE PrintInt(n)

\* the characters that occur in file names, in ASCII order
AsciiOrder ==
  <<".", "0", "1", "2", "3", "4", "5", "6", "7", "8", "9",
    "A", "C", "E", "M", "N", "O", "P", "S", "T", "V", "X", "_">>

CharRank(c) == CHOOSE i \in 1..Len(AsciiOrder) : AsciiOrder[i] = c

\* strcmp : negative, zero or positive
RECURSIVE strcmp(_, _)
strcmp(a, b) ==
  IF a = <<>> /\ b = <<>> THEN 0
  ELSE IF a = <<>> THEN -1
  ELSE IF b = <<>> THEN 1
  ELSE IF Head(a) = Head(b) THEN strcmp(Tail(a), Tail(b))
  ELSE IF CharRank(Head(a)) < CharRank(Head(b)) THEN -1 ELSE 1

\* String::indexOf(ch, from) with 0-based positions, -1 when absent.
\* A start past the end gives -1.
RECURSIVE IndexFrom(_, _, _)
IndexFrom(str, ch, from) ==
  IF from >= Len(str) THEN -1
  ELSE IF str[from + 1] = ch THEN from
  ELSE IndexFrom(str, ch, from + 1)

\* an int passed as an unsigned int parameter: a negative value becomes a
\* value above every string length (the largest integer stands for it)
AsUnsigned(x) == IF x < 0 THEN 2147483647 ELSE x

\* String::substring(left, right) with 0-based positions, right exclusive.
\* The parameters are unsigned; the bounds are swapped when left > right,
\* the result is empty when left is past the end, right is cut to the length.
Substring(str, left, right) ==
  LET l  == AsUnsigned(left)
      r  == AsUnsigned(right)
      lo == IF l > r THEN r ELSE l
      hi0 == IF l > r THEN l ELSE r
      hi == IF hi0 > Len(str) THEN Len(str) ELSE hi0
  IN IF lo >= Len(str) THEN <<>> ELSE SubSeq(str, lo + 1, hi)

\* String::substring(left) : to the end of the string
SubstringFrom(str, left) == Substring(str, left, Len(str))

\* String::toInt : the leading decimal digits, 0 when there are none
RECURSIVE ToIntAcc(_, _)
ToIntAcc(str, acc) ==
  IF str = <<>> \/ ~IsDigit(Head(str)) THEN acc
  ELSE ToIntAcc(Tail(str), acc * 10 + DigitVal(Head(str)))

ToInt(str) == ToIntAcc(str, 0)

----------------------------------------------------------------------------
(* File names and CSV lines *)

PREFIX == <<"T", "M", "P", "_">>
EXT    == <<".", "C", "S", "V">>

\* sprintf(name, "TMP_%02d%02d.CSV", month, day)
FileNameOf(month, day) == PREFIX \o Fmt02d(month) \o Fmt02d(day) \o EXT

\* the filter of the two enumerations:
\*   strncmp(name, "TMP_", 4) == 0 && strlen(name) == 12 &&
\*   strcmp(name + 8, ".CSV") == 0
IsLogFile(name) ==
  /\ Len(name) >= 4
  /\ SubSeq(name, 1, 4) = PREFIX
  /\ Len(name) = 12
  /\ SubSeq(name, 9, Len(name)) = EXT

\* "Index,DateTime,Value0,Value1,Value2,Value3" written by println
Header ==
  <<"I", "n", "d", "e", "x", ",", "D", "a", "t", "e", "T", "i", "m", "e", ",",
    "V", "a", "l", "u", "e", "0", ",", "V", "a", "l", "u", "e", "1", ",",
    "V", "a", "l", "u", "e", "2", ",", "V", "a", "l", "u", "e", "3", "\r">>

\* sprintf(buffer, "%02d-%02d-%02d %02d:%02d", year % 100, month, day, hour, minute)
formatDateTime(dt) ==
  Fmt02d(dt.year % 100) \o <<"-">> \o Fmt02d(dt.month) \o <<"-">> \o
  Fmt02d(dt.day) \o <<" ">> \o Fmt02d(dt.hour) \o <<":">> \o Fmt02d(dt.minute)

\* the line printed by takeMeasurement; println ends it with CR LF and the
\* reader splits at LF, so the CR stays at the end of the line
RecordLine(index, label, v) ==
  PrintInt(index) \o <<",">> \o label \o <<",">> \o
  PrintInt(v[1]) \o <<",">> \o PrintInt(v[2]) \o <<",">> \o
  PrintInt(v[3]) \o <<",">> \o PrintInt(v[4]) \o <<"\r">>

----------------------------------------------------------------------------
(* Calendar *)

IsLeapYear(y) == (y % 4 = 0 /\ y % 100 # 0) \/ (y % 400 = 0)

DaysIn(month, y) ==
  IF month \in {4, 6, 9, 11} THEN 30
  ELSE IF month = 2 THEN (IF IsLeapYear(y) THEN 29 ELSE 28)
  ELSE 31

----------------------------------------------------------------------------
(* State *)

VARIABLES
  rtc,               \* the RTC registers: year (offset from 2000), month, day, hour, minute, second
  alarm,             \* the programmed alarm: enabled, hour, minute, second
  alarmTriggered,    \* the flag set by the alarm interrupt
  sdAvailable,       \* SD.begin succeeded
  sd,                \* the card: the directory, a sequence of files in enumeration order
  currentFilename,   \* name of the active log file
  sampleCount,       \* uint16_t, index of the next record
  samplingInterval,  \* uint8_t, minutes
  maxSamplesPerDay,  \* uint16_t
  fileNames,         \* the global array filled by scanFiles, entries 0..fileCount-1
  fileCount,         \* uint8_t
  listening,         \* the radio is in receive mode
  dataFile,          \* the shared File handle as a condition: TRUE while it is open
  req,               \* the frame read by the latest waitForCommand, <<>> when none was available
  tx,                \* the frames handed to radio.write by the latest waitForCommand, in order
  success,           \* the result of modifyRTC in the latest waitForCommand
  outcome,           \* what the SD opens and the start-marker write returned in setup(), in the latest waitForCommand or in the latest measurement cycle
  calls,             \* the calls of takeMeasurement, setupNextAlarm, cleanupOldFiles and of the radio (stopListening, radio.write, startListening) that setup() or the latest step of loop() has made, in order
  pc,                \* "setup", then the position in loop(): "poll" or "alarm"; "program" before a lone setupNextAlarm, "interval" before a lone setSamplingInterval; "name", "client" and "list" before the lone calls of the runs named after them
  events             \* alarm fires and accepted clock writes so far (bounds the run)

vars == <<rtc, alarm, alarmTriggered, sdAvailable, sd, currentFilename,
          sampleCount, samplingInterval, maxSamplesPerDay, fileNames,
          fileCount, listening, dataFile, req, tx, success, outcome, calls,
          pc, events>>

\* The program state as one record, threaded through the functions below.
S ==
  [rtc |-> rtc, alarm |-> alarm, sdAvailable |-> sdAvailable, sd |-> sd,
   currentFilename |-> currentFilename, sampleCount |-> sampleCount,
   samplingInterval |-> samplingInterval,
   maxSamplesPerDay |-> maxSamplesPerDay, fileNames |-> fileNames,
   fileCount |-> fileCount, listening |-> listening, dataFile |-> dataFile,
   tx |-> tx, success |-> success, calls |-> calls]

Commit(s) ==
  /\ rtc' = s.rtc
  /\ alarm' = s.alarm
  /\ sdAvailable' = s.sdAvailable
  /\ sd' = s.sd
  /\ currentFilename' = s.currentFilename
  /\ sampleCount' = s.sampleCount
  /\ samplingInterval' = s.samplingInterval
  /\ maxSamplesPerDay' = s.maxSamplesPerDay
  /\ fileNames' = s.fileNames
  /\ fileCount' = s.fileCount
  /\ listening' = s.listening
  /\ dataFile' = s.dataFile
  /\ tx' = s.tx
  /\ success' = s.success
  /\ calls' = s.calls

----------------------------------------------------------------------------
(* The SD card.  A file is [name, lines, recs, fresh]: lines are the text  *)
(* lines in order; recs and fresh are history, not data on the card: recs  *)
(* lists the records takeMeasurement appended to the file since power-on,  *)
(* fresh tells that the file did not exist at power-on.                    *)

FileIndex(dir, name) ==
  IF \E i \in 1..Len(dir) : dir[i].name = name
  THEN CHOOSE i \in 1..Len(dir) : dir[i].name = name
  ELSE 0

\* SD.exists(name)
SDexists(s, name) == s.sdAvailable /\ FileIndex(s.sd, name) # 0

FileOf(dir, name) == dir[FileIndex(dir, name)]

\* SD.open(name, FILE_WRITE) of an absent file creates it, empty
CreateFile(dir, name) ==
  Append(dir, [name |-> name, lines |-> <<>>, recs |-> <<>>, fresh |-> TRUE])

\* println to a file opened with FILE_WRITE appends one line
AppendLine(dir, name, line) ==
  [dir EXCEPT ![FileIndex(dir, name)].lines = Append(@, line)]

\* SD.remove(name); removing an absent name does nothing
RECURSIVE RemoveFile(_, _)
RemoveFile(dir, name) ==
  IF dir = <<>> THEN <<>>
  ELSE IF Head(dir).name = name THEN Tail(dir)
  ELSE <<Head(dir)>> \o RemoveFile(Tail(dir), name)

\* the names root.openNextFile() yields that pass the filter, in order
RECURSIVE LogFileNames(_)
LogFileNames(dir) ==
  IF dir = <<>> THEN <<>>
  ELSE IF IsLogFile(Head(dir).name)
       THEN <<Head(dir).name>> \o LogFileNames(Tail(dir))
       ELSE LogFileNames(Tail(dir))

\* Outcomes of the SD calls of one handler: each flag tells whether the
\* open it is named after succeeds (given that the card is available).
IOOutcomes ==
  { [create |-> c, read |-> r, append |-> a, root |-> d] :
      c \in BOOLEAN, r \in BOOLEAN, a \in BOOLEAN, d \in BOOLEAN }

IOSingleFailures ==
  { io \in IOOutcomes :
      Cardinality({f \in {"create", "read", "append", "root"} : ~io[f]}) <= 1 }

IOAllOk == [create |-> TRUE, read |-> TRUE, append |-> TRUE, root |-> TRUE]

NoOutcome == [io |-> IOAllOk, ack |-> TRUE]

\* the call log of a pass that entered none of the logged functions
NoCalls == <<>>

\* the call log after function f has been entered
Called(s, f) == [s EXCEPT !.calls = Append(@, f)]

----------------------------------------------------------------------------
(* Clock service *)

\* getCurrentDateTime()
getCurrentDateTime(r) ==
  [year |-> r.year + 2000, month |-> r.month, day |-> r.day,
   hour |-> r.hour, minute |-> r.minute, second |-> r.second]

\* setDateTime(dt): six register writes; setYear takes a uint8_t
setDateTime(r, dt) ==
  [year |-> (dt.year - 2000) % 256, month |-> dt.month, day |-> dt.day,
   hour |-> dt.hour, minute |-> dt.minute, second |-> dt.second]

\* The RTC's own date step at midnight.
NextDay(r) ==
  IF r.day < DaysIn(r.month, r.year + 2000)
  THEN [r EXCEPT !.day = r.day + 1]
  ELSE IF r.month < 12
  THEN [r EXCEPT !.day = 1, !.month = r.month + 1]
  ELSE [r EXCEPT !.day = 1, !.month = 1, !.year = (r.year + 1) % 100]

----------------------------------------------------------------------------
(* Sample store *)

\* the number of lines after the first, as the counting loop finds it
CountDataLines(lines) == IF Len(lines) <= 1 THEN 0 ELSE Len(lines) - 1

\* dataFile = SD.open(...): the handle is valid when the open succeeded
openDataFile(s, opened) == [s EXCEPT !.dataFile = opened]

\* a close that leaves the handle as it was
closeDataFileKeepsOpen(s) == s

\* dataFile.close()
closeDataFile(s) == [s EXCEPT !.dataFile = FALSE]

\* an updateCurrentFilename that counts on from the old counter
updateCurrentFilenameCountsOn(s, io) ==
  LET now  == getCurrentDateTime(s.rtc)
      name == FileNameOf(now.month, now.day)
      s1   == [s EXCEPT !.currentFilename = name]
  IN IF ~SDexists(s1, name) /\ s1.sdAvailable
     THEN IF io.create
          THEN closeDataFile(
                 [openDataFile(s1, TRUE)
                    EXCEPT !.sd = AppendLine(CreateFile(s1.sd, name), name,
                                             Header),
                           !.sampleCount = 0])
          ELSE openDataFile(s1, FALSE)
     ELSE IF s1.sdAvailable
     THEN IF io.read
          THEN closeDataFile(
                 [openDataFile(s1, TRUE) EXCEPT !.sampleCount =
                    (@ + CountDataLines(FileOf(s1.sd, name).lines)) % 65536])
          ELSE openDataFile(s1, FALSE)
     ELSE s1

\* updateCurrentFilename(): names the active file after the clock's date,
\* creates it with the header when it is absent, else counts its data lines
updateCurrentFilename(s, io) ==
  LET now  == getCurrentDateTime(s.rtc)
      name == FileNameOf(now.month, now.day)
      s1   == [s EXCEPT !.currentFilename = name]
  IN IF ~SDexists(s1, name) /\ s1.sdAvailable
     THEN IF io.create
          THEN closeDataFile(
                 [openDataFile(s1, TRUE)
                    EXCEPT !.sd = AppendLine(CreateFile(s1.sd, name), name,
                                             Header),
                           !.sampleCount = 0])
          ELSE openDataFile(s1, FALSE)
     ELSE IF s1.sdAvailable
     THEN IF io.read
          THEN closeDataFile(
                 [openDataFile(s1, TRUE) EXCEPT !.sampleCount =
                    CountDataLines(FileOf(s1.sd, name).lines) % 65536])
          ELSE openDataFile(s1, FALSE)
     ELSE s1

\* the bubble sort of cleanupOldFiles, pass by pass
RECURSIVE BubblePass(_, _, _)
BubblePass(a, j, last) ==
  IF j > last THEN a
  ELSE IF strcmp(a[j], a[j + 1]) > 0
       THEN BubblePass([a EXCEPT ![j] = a[j + 1], ![j + 1] = a[j]], j + 1, last)
       ELSE BubblePass(a, j + 1, last)

RECURSIVE BubbleSortFrom(_, _)
BubbleSortFrom(a, i) ==
  IF i >= Len(a) - 1 THEN a
  ELSE BubbleSortFrom(BubblePass(a, 1, Len(a) - i - 1), i + 1)

BubbleSort(a) == BubbleSortFrom(a, 0)

RECURSIVE RemoveAll(_, _)
RemoveAll(dir, names) ==
  IF names = <<>> THEN dir
  ELSE RemoveAll(RemoveFile(dir, Head(names)), Tail(names))

\* The local array fileNames[MAX_DAYS][16] is written at index fileCount
\* for every matching file, without a bound check.  Entries at index
\* MAX_DAYS and above lie outside the array, in the rest of the stack
\* frame: the behaviour is undefined.  It is modelled by what such an entry
\* holds when the sort reads it back: the name that was written, another
\* name of the enumeration (the first one), or bytes that name no file (the
\* empty string, which sorts first, and "_", which sorts last).
Garbage == {<<>>, <<"_">>}

RECURSIVE ArraysReadBack(_, _)
ArraysReadBack(names, n) ==
  IF n <= MAX_DAYS \/ n = 0 THEN {SubSeq(names, 1, n)}
  ELSE {Append(a, x) : a \in ArraysReadBack(names, n - 1),
                       x \in {names[n], names[1]} \cup Garbage}

\* the possible contents of the local array after the enumeration loop
CleanupOutcomes(s, io) ==
  LET names == IF s.sdAvailable /\ io.root THEN LogFileNames(s.sd) ELSE <<>>
  IN ArraysReadBack(names, Len(names))

\* cleanupOldFiles(); arr is the local array after the enumeration loop
cleanupOldFiles(s0, io, arr) ==
  LET s == Called(s0, "cleanupOldFiles")
  IN IF ~s.sdAvailable THEN s
     ELSE LET count == Len(arr)
          IN IF count > MAX_DAYS
             THEN LET sorted == BubbleSort(arr)
                      filesToDelete == count - MAX_DAYS
                  IN [s EXCEPT !.sd = RemoveAll(s.sd,
                                        SubSeq(sorted, 1, filesToDelete))]
             ELSE s

----------------------------------------------------------------------------
(* Sampling scheduler *)

\* a setSamplingInterval that leaves the counter alone
setSamplingIntervalKeepsCount(s, interval) ==
  IF interval >= 1 /\ interval <= 60
  THEN [s EXCEPT !.samplingInterval = interval,
                 !.maxSamplesPerDay = MINUTES_PER_DAY \div interval]
  ELSE s

\* setSamplingInterval(interval): accepted from 1 to 60, else only logged
setSamplingInterval(s, interval) ==
  IF interval >= 1 /\ interval <= 60
  THEN [s EXCEPT !.samplingInterval = interval,
                 !.maxSamplesPerDay = MINUTES_PER_DAY \div interval,
                 !.sampleCount = 0]
  ELSE s

\* the hour and minute setupNextAlarm computes (uint8_t arithmetic)
NextAlarmTime(now, interval) ==
  LET alarmMinute == ((now.minute + interval) % 60) % 256
      alarmHour   == IF alarmMinute < now.minute
                     THEN ((now.hour + 1) % 24) % 256
                     ELSE now.hour
  IN [hour |-> alarmHour, minute |-> alarmMinute]

\* setupNextAlarm calls cleanupOldFiles when the hour wraps
AlarmCrossesMidnight(now, interval) ==
  LET t == NextAlarmTime(now, interval)
  IN t.minute < now.minute /\ t.hour < now.hour

\* setupNextAlarm(); arr is the array of the clean-up, if it runs
setupNextAlarm(s0, io, arr) ==
  LET s   == Called(s0, "setupNextAlarm")
      now == getCurrentDateTime(s.rtc)
      t   == NextAlarmTime(now, s.samplingInterval)
      s1  == IF AlarmCrossesMidnight(now, s.samplingInterval)
             THEN cleanupOldFiles(s, io, arr)
             ELSE s
  IN [s1 EXCEPT !.alarm = [enabled |-> TRUE, hour |-> t.hour,
                           minute |-> t.minute, second |-> 0]]

\* the arrays of the clean-up inside setupNextAlarm, if it runs
AlarmCleanupOutcomes(s, io) ==
  IF AlarmCrossesMidnight(getCurrentDateTime(s.rtc), s.samplingInterval)
  THEN CleanupOutcomes(s, io)
  ELSE {<<>>}

\* the file choice of takeMeasurement that never leaves the active file
selectFileKeepsFile(s1, newFilename, io) == s1

\* the file choice of takeMeasurement: a new day's name or a full day
\* makes it resolve the active file again and restart the index
selectFile(s1, newFilename, io) ==
  IF newFilename # s1.currentFilename
     \/ s1.sampleCount >= s1.maxSamplesPerDay
  THEN [updateCurrentFilename(
           [s1 EXCEPT !.currentFilename = newFilename], io)
         EXCEPT !.sampleCount = 0]
  ELSE s1

\* the record write of takeMeasurement that counts the sample although the
\* file did not open
saveRecordCountsAlways(s2, dateTimeStr, io, adc) ==
  LET name == s2.currentFilename
      line == RecordLine(s2.sampleCount, dateTimeStr, adc)
      dir0 == IF FileIndex(s2.sd, name) = 0
              THEN CreateFile(s2.sd, name) ELSE s2.sd
      dir1 == [AppendLine(dir0, name, line)
                 EXCEPT ![FileIndex(dir0, name)].recs =
                   Append(@, [label |-> dateTimeStr, v |-> adc])]
  IN IF io.append
     THEN [closeDataFile([openDataFile(s2, TRUE) EXCEPT !.sd = dir1])
             EXCEPT !.sampleCount = (s2.sampleCount + 1) % 65536]
     ELSE [openDataFile(s2, FALSE)
             EXCEPT !.sampleCount = (s2.sampleCount + 1) % 65536]

\* the record write of takeMeasurement: SD.open(currentFilename,
\* FILE_WRITE) creates the file when it is missing
saveRecord(s2, dateTimeStr, io, adc) ==
  LET name == s2.currentFilename
      line == RecordLine(s2.sampleCount, dateTimeStr, adc)
      dir0 == IF FileIndex(s2.sd, name) = 0
              THEN CreateFile(s2.sd, name) ELSE s2.sd
      dir1 == [AppendLine(dir0, name, line)
                 EXCEPT ![FileIndex(dir0, name)].recs =
                   Append(@, [label |-> dateTimeStr, v |-> adc])]
  IN IF io.append
     THEN [closeDataFile([openDataFile(s2, TRUE) EXCEPT !.sd = dir1])
             EXCEPT !.sampleCount = (s2.sampleCount + 1) % 65536]
     ELSE openDataFile(s2, FALSE)

\* a takeMeasurement that does not look at sdAvailable
takeMeasurementIgnoresCard(s, io, adc) ==
  LET s1  == [Called(s, "takeMeasurement")
                EXCEPT !.maxSamplesPerDay =
                         MINUTES_PER_DAY \div s.samplingInterval]
      now == getCurrentDateTime(s1.rtc)
  IN saveRecord(selectFile(s1, FileNameOf(now.month, now.day), io),
                formatDateTime(now), io, adc)

\* takeMeasurement(); adc are the four analogRead results
takeMeasurement(s, io, adc) ==
  LET s1 == [Called(s, "takeMeasurement")
               EXCEPT !.maxSamplesPerDay =
                        MINUTES_PER_DAY \div s.samplingInterval]
  IN IF ~s1.sdAvailable THEN s1
     ELSE
       LET now == getCurrentDateTime(s1.rtc)
           newFilename == FileNameOf(now.month, now.day)
       IN saveRecord(selectFile(s1, newFilename, io),
                     formatDateTime(now), io, adc)

----------------------------------------------------------------------------
(* Command protocol engine *)

\* radio.stopListening() / radio.startListening() / radio.write(frame)
stopListening(s)  == Called([s EXCEPT !.listening = FALSE], "stopListening")
startListening(s) == Called([s EXCEPT !.listening = TRUE], "startListening")
radioWrite(s, frame) == Called([s EXCEPT !.tx = Append(@, frame)], "radio.write")

\* a day limit that ignores the month
maxDaysAlways31(current) == 31

\* the day limit modifyRTC checks a new day against
maxDays(current) ==
  IF current.month = 4 \/ current.month = 6
     \/ current.month = 9 \/ current.month = 11
  THEN 30
  ELSE IF current.month = 2
  THEN (IF (current.year % 4 = 0 /\ current.year % 100 # 0)
           \/ (current.year % 400 = 0) THEN 29 ELSE 28)
  ELSE 31

\* the switch of modifyRTC: is the value accepted for the key
rtcValueValid(current, key, value) ==
  CASE key = RTC_KEY_MONTH  -> value >= 1 /\ value <= 12
    [] key = RTC_KEY_DAY    -> value >= 1 /\ value <= maxDays(current)
    [] key = RTC_KEY_HOUR   -> value < 24
    [] key = RTC_KEY_MINUTE -> value < 60
    [] key = RTC_KEY_SECOND -> value < 60
    [] key = RTC_KEY_YEAR   -> value <= 99
    [] OTHER                -> FALSE

\* the switch of modifyRTC: the field assignment
rtcWithField(current, key, value) ==
  CASE key = RTC_KEY_MONTH  -> [current EXCEPT !.month = value]
    [] key = RTC_KEY_DAY    -> [current EXCEPT !.day = value]
    [] key = RTC_KEY_HOUR   -> [current EXCEPT !.hour = value]
    [] key = RTC_KEY_MINUTE -> [current EXCEPT !.minute = value]
    [] key = RTC_KEY_SECOND -> [current EXCEPT !.second = value]
    [] key = RTC_KEY_YEAR   -> [current EXCEPT !.year = 2000 + value]
    [] OTHER                -> current

\* a modifyRTC that takes a sample after an accepted write
modifyRTCSamples(s, key, value, io) ==
  LET current == getCurrentDateTime(s.rtc)
      valid   == rtcValueValid(current, key, value)
  IN IF valid
     THEN LET s1 == [s EXCEPT !.rtc = setDateTime(s.rtc,
                                         rtcWithField(current, key, value))]
              s2 == IF key = RTC_KEY_MONTH \/ key = RTC_KEY_DAY
                    THEN updateCurrentFilename(s1, io)
                    ELSE s1
          IN [takeMeasurement(s2, io, <<0, 0, 0, 0>>) EXCEPT !.success = TRUE]
     ELSE [s EXCEPT !.success = FALSE]

\* modifyRTC(key, value); the result is left in s.success
modifyRTC(s, key, value, io) ==
  LET current == getCurrentDateTime(s.rtc)
      valid   == rtcValueValid(current, key, value)
  IN IF valid
     THEN LET s1 == [s EXCEPT !.rtc = setDateTime(s.rtc,
                                         rtcWithField(current, key, value))]
              s2 == IF key = RTC_KEY_MONTH \/ key = RTC_KEY_DAY
                    THEN updateCurrentFilename(s1, io)
                    ELSE s1
          IN [s2 EXCEPT !.success = TRUE]
     ELSE [s EXCEPT !.success = FALSE]

\* getRTCInfo answering 0 for a key it does not know
getRTCInfoZeroDefault(s, key) ==
  LET current == getCurrentDateTime(s.rtc)
  IN CASE key = RTC_KEY_MONTH  -> current.month
       [] key = RTC_KEY_DAY    -> current.day
       [] key = RTC_KEY_HOUR   -> current.hour
       [] key = RTC_KEY_MINUTE -> current.minute
       [] key = RTC_KEY_SECOND -> current.second
       [] key = RTC_KEY_YEAR   -> (current.year - 2000) % 256
       [] OTHER                -> 0

\* getRTCInfo(key), a uint8_t
getRTCInfo(s, key) ==
  LET current == getCurrentDateTime(s.rtc)
  IN CASE key = RTC_KEY_MONTH  -> current.month
       [] key = RTC_KEY_DAY    -> current.day
       [] key = RTC_KEY_HOUR   -> current.hour
       [] key = RTC_KEY_MINUTE -> current.minute
       [] key = RTC_KEY_SECOND -> current.second
       [] key = RTC_KEY_YEAR   -> (current.year - 2000) % 256
       [] OTHER                -> RTC_INVALID

\* an RTC answer whose value is always 1
RtcResponseAlwaysOk(command, key, value) ==
  [command |-> command, key |-> key, value |-> 1]

\* The RTC answers are DataResponse frames of which only command, key and
\* value are assigned; the other bytes are whatever the stack held and are
\* not part of the record.
RtcResponse(command, key, value) ==
  [command |-> command, key |-> key, value |-> value]

\* a sendRTCInfo that writes before it leaves the listening mode
sendRTCInfoWritesFirst(s, request) ==
  LET response == RtcResponse(CMD_GET_RTC_INFO, request.key,
                              getRTCInfo(s, request.key))
  IN startListening(stopListening(radioWrite(s, response)))

\* sendRTCInfo(request)
sendRTCInfo(s, request) ==
  LET response == RtcResponse(CMD_GET_RTC_INFO, request.key,
                              getRTCInfo(s, request.key))
  IN startListening(radioWrite(stopListening(s), response))

\* a scanFiles that restarts the sample counter
scanFilesResetsCounter(s, io) ==
  IF ~(s.sdAvailable /\ io.root)
  THEN [s EXCEPT !.fileCount = 0, !.sampleCount = 0]
  ELSE LET names == LogFileNames(s.sd)
           n == IF Len(names) > MAX_FILES THEN MAX_FILES ELSE Len(names)
       IN [s EXCEPT !.fileNames = SubSeq(names, 1, n), !.fileCount = n,
                    !.sampleCount = 0]

\* scanFiles(): at most MAX_FILES names; nothing when the root does not open
scanFiles(s, io) ==
  IF ~(s.sdAvailable /\ io.root)
  THEN [s EXCEPT !.fileCount = 0]
  ELSE LET names == LogFileNames(s.sd)
           n == IF Len(names) > MAX_FILES THEN MAX_FILES ELSE Len(names)
       IN [s EXCEPT !.fileNames = SubSeq(names, 1, n), !.fileCount = n]

\* a list entry numbered from 1
FileListResponseOneBased(i, total, name) ==
  [command |-> CMD_FILE_LIST, fileIndex |-> i + 1, totalFiles |-> total,
   filename |-> name]

FileListResponse(i, total, name) ==
  [command |-> CMD_FILE_LIST, fileIndex |-> i, totalFiles |-> total,
   filename |-> name]

\* a marker frame that is always the start marker
MarkerAlwaysStart(byte) == [command |-> CMD_LIST_START]

Marker(byte) == [command |-> byte]

\* the for loop of sendFileList, from entry i (0-based) on
RECURSIVE SendEntries(_, _)
SendEntries(s, i) ==
  IF i >= s.fileCount THEN s
  ELSE SendEntries(
         radioWrite(s, FileListResponse(i, s.fileCount, s.fileNames[i + 1])),
         i + 1)

\* sendFileList returning in transmit mode when the start marker fails
sendFileListStaysInTx(s, startAck) ==
  LET s1 == stopListening(s)
  IN IF s1.fileCount = 0
     THEN startListening(radioWrite(s1, Marker(CMD_LIST_END)))
     ELSE LET s2 == radioWrite(s1, Marker(CMD_LIST_START))
          IN IF ~startAck
             THEN s2
             ELSE startListening(
                    radioWrite(SendEntries(s2, 0), Marker(CMD_LIST_END)))

\* sendFileList(); startAck is the result of writing the start marker
sendFileList(s, startAck) ==
  LET s1 == stopListening(s)
  IN IF s1.fileCount = 0
     THEN startListening(radioWrite(s1, Marker(CMD_LIST_END)))
     ELSE LET s2 == radioWrite(s1, Marker(CMD_LIST_START))
          IN IF ~startAck
             THEN startListening(s2)
             ELSE startListening(
                    radioWrite(SendEntries(s2, 0), Marker(CMD_LIST_END)))

\* one parsed line of sendFile
DataResponse(request, counter, line) ==
  LET idx1 == IndexFrom(line, ",", 0)
      idx2 == IndexFrom(line, ",", idx1 + 1)
      idx3 == IndexFrom(line, ",", idx2 + 1)
      idx4 == IndexFrom(line, ",", idx3 + 1)
      idx5 == IndexFrom(line, ",", idx4 + 1)
  IN [command |-> CMD_SEND_DATA,
      index |-> (request.startIndex + counter) % 65536,
      timestamp |-> Substring(line, idx1 + 1, idx2),
      value0 |-> ToInt(Substring(line, idx2 + 1, idx3)) % 65536,
      value1 |-> ToInt(Substring(line, idx3 + 1, idx4)) % 65536,
      value2 |-> ToInt(Substring(line, idx4 + 1, idx5)) % 65536,
      value3 |-> ToInt(SubstringFrom(line, idx5 + 1)) % 65536]

\* the while loop of sendFile over the lines not yet read
RECURSIVE SendLines(_, _, _, _)
SendLines(s, request, rest, counter) ==
  IF rest = <<>> \/ counter >= request.numSamples THEN s
  ELSE SendLines(radioWrite(s, DataResponse(request, counter, Head(rest))),
                 request, Tail(rest), counter + 1)

\* the lines left after the header and startIndex lines were skipped
SkipLines(lines, startIndex) ==
  LET n == IF lines = <<>> THEN 0 ELSE 1 + startIndex
  IN IF n >= Len(lines) THEN <<>> ELSE SubSeq(lines, n + 1, Len(lines))

\* request.filename[MAX_FILENAME_LENGTH - 1] = '\0'
Terminated(name) ==
  IF Len(name) > MAX_FILENAME_LENGTH - 1
  THEN SubSeq(name, 1, MAX_FILENAME_LENGTH - 1) ELSE name

\* sendFile answering a request for a missing file with an empty frame
sendFileAnswersMissing(s, request, io) ==
  LET s1 == stopListening(s)
      name == Terminated(request.filename)
  IN IF ~SDexists(s1, name)
     THEN startListening(radioWrite(s1, DataResponse(request, 0, <<>>)))
     ELSE IF io.read
          THEN startListening(
                 closeDataFile(
                   SendLines(openDataFile(s1, TRUE), request,
                             SkipLines(FileOf(s1.sd, name).lines,
                                       request.startIndex), 0)))
          ELSE startListening(openDataFile(s1, FALSE))

\* sendFile(request)
sendFile(s, request, io) ==
  LET s1 == stopListening(s)
      name == Terminated(request.filename)
  IN IF ~SDexists(s1, name)
     THEN startListening(s1)
     ELSE IF io.read
          THEN startListening(
                 closeDataFile(
                   SendLines(openDataFile(s1, TRUE), request,
                             SkipLines(FileOf(s1.sd, name).lines,
                                       request.startIndex), 0)))
          ELSE startListening(openDataFile(s1, FALSE))

\* the body of waitForCommand for a frame that was available
handleCommand(s, request, io, startAck) ==
  IF request.command = CMD_FILE_LIST
  THEN sendFileList(scanFiles(s, io), startAck)
  ELSE IF request.command = CMD_REQUEST_DATA
  THEN sendFile(s, request, io)
  ELSE IF request.command = CMD_MODIFY_RTC
  THEN LET s1 == modifyRTC(s, request.key, request.value, io)
           response == RtcResponse(CMD_MODIFY_RTC, request.key,
                                   IF s1.success THEN 1 ELSE 0)
       IN startListening(radioWrite(stopListening(s1), response))
  ELSE IF request.command = CMD_GET_RTC_INFO
  THEN sendRTCInfo(s, request)
  ELSE s

----------------------------------------------------------------------------
(* Power-on environment: what the RTC backup domain and the card hold *)

BootClocks ==
  { [year |-> 25, month |-> 1, day |-> 31, hour |-> 23, minute |-> 50, second |-> 0],
    [year |-> 25, month |-> 1, day |-> 31, hour |-> 23, minute |-> 55, second |-> 0] }

\* more clocks for the runs without a card
MoreBootClocks ==
  BootClocks \cup
  { [year |-> 24, month |-> 2, day |-> 29, hour |-> 23, minute |-> 58, second |-> 30] }

OldMonths == <<12, 1, 1, 6, 2, 3, 11, 1, 4>>
OldDays   == <<31, 1, 31, 15, 1, 1, 30, 2, 2>>
OldCounts == <<1, 0, 2, 0, 1, 0, 1, 0, 1>>

\* a well-formed record line as an earlier run left it
OldLine(i) ==
  RecordLine(i, formatDateTime([year |-> 2024, month |-> 12, day |-> 31,
                                hour |-> 10, minute |-> 5 * i]),
             <<i, 10 + i, 200 + i, 4095>>)

\* the second directory entry is a file the filter must reject
OldName(i) ==
  IF i = 2 THEN PREFIX \o <<"0", "1", "0", "1", ".", "T", "X", "T">>
  ELSE FileNameOf(OldMonths[i], OldDays[i])

OldFile(i) ==
  [name |-> OldName(i),
   lines |-> <<Header>> \o [k \in 1..OldCounts[i] |-> OldLine(k - 1)],
   recs |-> <<>>, fresh |-> FALSE]

OldDir == [i \in 1..MaxOldFiles |-> OldFile(i)]

OldStores == {SubSeq(OldDir, 1, k) : k \in {0, MaxOldFiles - 1, MaxOldFiles}}

AdcSamples == {<<0, 0, 0, 0>>, <<7, 45, 1023, 512>>}

\* what a measurement cycle meets: the outcomes of its SD calls and the
\* four readings; a failing SD call is tried with one of the readings
CycleInputs ==
  {<<IOAllOk, adc>> : adc \in AdcSamples} \cup
  {<<io, <<7, 45, 1023, 512>> >> : io \in IOSingleFailures}

\* the globals as their initialisers leave them, with the given clock and card
PowerOn(clock, card) ==
  [rtc |-> clock,
   alarm |-> [enabled |-> FALSE, hour |-> 0, minute |-> 0, second |-> 0],
   sdAvailable |-> FALSE, sd |-> card, currentFilename |-> <<>>,
   sampleCount |-> 0, samplingInterval |-> DEFAULT_INTERVAL,
   maxSamplesPerDay |-> 0, fileNames |-> <<>>, fileCount |-> 0,
   listening |-> FALSE, dataFile |-> FALSE, tx |-> <<>>, success |-> FALSE,
   calls |-> NoCalls]

\* setup(): radio, card, sampling interval, first alarm, active file
setup(s, sdOk, io, arr) ==
  LET s0 == startListening([s EXCEPT !.sdAvailable = sdOk])
      s1 == setSamplingInterval(s0, SETUP_INTERVAL)
  IN updateCurrentFilename(setupNextAlarm(s1, io, arr), io)

\* the arrays of the clean-up inside setup(), if it runs
SetupCleanupOutcomes(s, sdOk, io) ==
  AlarmCleanupOutcomes(
    setSamplingInterval([s EXCEPT !.sdAvailable = sdOk], SETUP_INTERVAL), io)

----------------------------------------------------------------------------
(* Frames the client may send *)

BaseRequest ==
  [command |-> 0, startIndex |-> 0, numSamples |-> 0, filename |-> <<>>,
   key |-> 0, value |-> 0]

MissingName == PREFIX \o <<"0", "0", "0", "0">> \o EXT

RequestNames(s) ==
  {FileNameOf(s.rtc.month, s.rtc.day), OldName(1)}

RequestRanges == {<<0, 1>>, <<0, 2>>, <<1, 2>>}

DataRequests(s) ==
  {[BaseRequest EXCEPT !.command = CMD_REQUEST_DATA, !.filename = n,
                       !.startIndex = p[1], !.numSamples = p[2]] :
     n \in RequestNames(s), p \in RequestRanges}
  \cup {[BaseRequest EXCEPT !.command = CMD_REQUEST_DATA,
                            !.filename = MissingName, !.numSamples = 1]}

ListRequests == {[BaseRequest EXCEPT !.command = CMD_FILE_LIST]}

ModifyRequests(writes) ==
  {[BaseRequest EXCEPT !.command = CMD_MODIFY_RTC, !.key = kv[1],
                       !.value = kv[2]] : kv \in writes}

GetRequests(keys) ==
  {[BaseRequest EXCEPT !.command = CMD_GET_RTC_INFO, !.key = k] : k \in keys}

UnknownRequests ==
  {[BaseRequest EXCEPT !.command = c] : c \in {0, CMD_LIST_FILES}}

\* the clock writes tried while the card is in use
FewRtcWrites ==
  {<<RTC_KEY_MONTH, 2>>, <<RTC_KEY_MONTH, 13>>, <<RTC_KEY_DAY, 30>>,
   <<RTC_KEY_DAY, 31>>, <<RTC_KEY_DAY, 32>>, <<7, 1>>}

\* the clock writes tried without a card
ManyRtcWrites ==
  {<<RTC_KEY_MONTH, v>> : v \in {0, 2, 4, 12, 13}} \cup
  {<<RTC_KEY_DAY, v>> : v \in {0, 28, 29, 30, 31, 32}} \cup
  {<<RTC_KEY_HOUR, v>> : v \in {23, 24}} \cup
  {<<RTC_KEY_MINUTE, v>> : v \in {59, 60}} \cup
  {<<RTC_KEY_SECOND, v>> : v \in {59, 60}} \cup
  {<<RTC_KEY_YEAR, v>> : v \in {0, 99, 100, 255}} \cup
  {<<0, 1>>, <<7, 1>>, <<255, 12>>}

Requests(s) ==
  DataRequests(s) \cup ListRequests \cup ModifyRequests(FewRtcWrites)
  \cup GetRequests({RTC_KEY_DAY, 7}) \cup UnknownRequests

ClockRequests ==
  ModifyRequests(ManyRtcWrites) \cup GetRequests(0..7 \cup {255})

\* the outcomes of the SD calls that the handler of a request can reach
IOFor(request) ==
  IF request.command = CMD_FILE_LIST
  THEN {IOAllOk, [IOAllOk EXCEPT !.root = FALSE]}
  ELSE IF request.command = CMD_REQUEST_DATA
          /\ request.startIndex = 0 /\ request.numSamples = 1
  THEN {IOAllOk, [IOAllOk EXCEPT !.read = FALSE]}
  ELSE IF request.command = CMD_MODIFY_RTC
          /\ request.key \in {RTC_KEY_MONTH, RTC_KEY_DAY}
          /\ request.value \in 1..12
  THEN {IOAllOk, [IOAllOk EXCEPT !.read = FALSE],
        [IOAllOk EXCEPT !.create = FALSE]}
  ELSE {IOAllOk}

\* the outcomes of the SD calls that setup() can reach
IOSetup(sdOk) ==
  IF sdOk
  THEN {IOAllOk, [IOAllOk EXCEPT !.create = FALSE],
        [IOAllOk EXCEPT !.read = FALSE], [IOAllOk EXCEPT !.root = FALSE]}
  ELSE {IOAllOk}

\* the results of writing the start marker that matter to the handler
AcksFor(request) ==
  IF request.command = CMD_FILE_LIST THEN BOOLEAN ELSE {TRUE}

----------------------------------------------------------------------------
(* Initial states *)

Loaded(s) ==
  /\ rtc = s.rtc
  /\ alarm = s.alarm
  /\ sdAvailable = s.sdAvailable
  /\ sd = s.sd
  /\ currentFilename = s.currentFilename
  /\ sampleCount = s.sampleCount
  /\ samplingInterval = s.samplingInterval
  /\ maxSamplesPerDay = s.maxSamplesPerDay
  /\ fileNames = s.fileNames
  /\ fileCount = s.fileCount
  /\ listening = s.listening
  /\ dataFile = s.dataFile
  /\ tx = s.tx
  /\ success = s.success
  /\ calls = s.calls

\* power-on: the global initialisers, some clock, some card
Init ==
  /\ \E clock \in BootClocks, card \in OldStores : Loaded(PowerOn(clock, card))
  /\ alarmTriggered = FALSE
  /\ req = <<>>
  /\ outcome = NoOutcome
  /\ pc = "setup"
  /\ events = 0

\* the logger after setup() when there is no card in the slot
InitNoCard ==
  /\ \E clock \in MoreBootClocks :
       Loaded(setup(PowerOn(clock, <<>>), FALSE, IOAllOk, <<>>))
  /\ alarmTriggered = FALSE
  /\ req = <<>>
  /\ outcome = NoOutcome
  /\ pc = "poll"
  /\ events = 0

----------------------------------------------------------------------------
(* Actions *)

Setup ==
  /\ pc = "setup"
  /\ \E sdOk \in BOOLEAN :
     \E io \in IOSetup(sdOk) :
       \E arr \in SetupCleanupOutcomes(S, sdOk, io) :
         /\ Commit(setup(S, sdOk, io, arr))
         /\ outcome' = [io |-> io, ack |-> TRUE]
  /\ pc' = "poll"
  /\ UNCHANGED <<alarmTriggered, req, events>>

\* waitForCommand() when radio.available() is false
WaitForCommandIdle ==
  /\ pc = "poll"
  /\ pc' = "alarm"
  /\ req' = <<>>
  /\ tx' = <<>>
  /\ success' = FALSE
  /\ outcome' = NoOutcome
  /\ calls' = NoCalls
  /\ UNCHANGED <<rtc, alarm, alarmTriggered, sdAvailable, sd, currentFilename,
                 sampleCount, samplingInterval, maxSamplesPerDay, fileNames,
                 fileCount, listening, dataFile, events>>

\* waitForCommand() reads the frame request and handles it; a frame is
\* only received while the radio listens.  counted: accepted clock writes
\* use up the run's events.
Receive(request, counted) ==
  /\ pc = "poll"
  /\ listening
  /\ \E io \in IOFor(request), startAck \in AcksFor(request) :
       LET s1 == handleCommand([S EXCEPT !.tx = <<>>, !.success = FALSE,
                                       !.calls = NoCalls],
                               request, io, startAck)
       IN /\ (counted /\ s1.success) => events < MaxEvents
          /\ Commit(s1)
          /\ outcome' = [io |-> io, ack |-> startAck]
          /\ events' = IF counted /\ s1.success THEN events + 1 ELSE events
  /\ req' = <<request>>
  /\ pc' = "alarm"
  /\ UNCHANGED alarmTriggered

WaitForCommand == \E request \in Requests(S) : Receive(request, TRUE)

WaitForClockCommand == \E request \in ClockRequests : Receive(request, FALSE)

\* a loop() that programs the next alarm without taking the sample
serveAlarmWithoutSample(s, io, adc, arr) == setupNextAlarm(s, io, arr)

\* the body of the if of loop(): takeMeasurement(), then setupNextAlarm()
serveAlarm(s, io, adc, arr) ==
  setupNextAlarm(takeMeasurement(s, io, adc), io, arr)

\* the rest of loop(): the alarm flag is consumed, one sample is taken and
\* the next alarm is programmed
LoopAlarm ==
  /\ pc = "alarm"
  /\ alarmTriggered
  /\ alarmTriggered' = FALSE
  /\ \E c \in CycleInputs :
       LET io  == c[1]
           adc == c[2]
           s0  == [S EXCEPT !.calls = NoCalls, !.tx = <<>>, !.success = FALSE]
       IN \E arr \in AlarmCleanupOutcomes(takeMeasurement(s0, io, adc), io) :
            /\ Commit(serveAlarm(s0, io, adc, arr))
            /\ outcome' = [io |-> io, ack |-> TRUE]
  /\ req' = <<>>
  /\ pc' = "poll"
  /\ UNCHANGED events

\* the rest of loop() when the flag is not set
LoopNoAlarm ==
  /\ pc = "alarm"
  /\ ~alarmTriggered
  /\ pc' = "poll"
  /\ req' = <<>>
  /\ tx' = <<>>
  /\ success' = FALSE
  /\ outcome' = NoOutcome
  /\ calls' = NoCalls
  /\ UNCHANGED <<rtc, alarm, alarmTriggered, sdAvailable, sd, currentFilename,
                 sampleCount, samplingInterval, maxSamplesPerDay, fileNames,
                 fileCount, listening, dataFile, events>>

\* the clock after time has run up to the next match of the alarm time
ClockAtAlarm(r, a) ==
  LET later == \/ a.hour > r.hour
               \/ a.hour = r.hour /\ a.minute > r.minute
               \/ a.hour = r.hour /\ a.minute = r.minute /\ a.second > r.second
      day == IF later THEN r ELSE NextDay(r)
  IN [day EXCEPT !.hour = a.hour, !.minute = a.minute, !.second = a.second]

\* time passes until the alarm matches; alarmMatch() sets the flag
AlarmMatch ==
  /\ pc # "setup"
  /\ alarm.enabled
  /\ events < MaxEvents
  /\ rtc' = ClockAtAlarm(rtc, alarm)
  /\ alarmTriggered' = TRUE
  /\ events' = events + 1
  /\ UNCHANGED <<alarm, sdAvailable, sd, currentFilename, sampleCount,
                 samplingInterval, maxSamplesPerDay, fileNames, fileCount,
                 listening, dataFile, req, tx, success, outcome, calls, pc>>

\* the logger with a card slot: all commands, sampling, retention
Next ==
  \/ Setup
  \/ WaitForCommandIdle
  \/ WaitForCommand
  \/ LoopAlarm
  \/ LoopNoAlarm
  \/ AlarmMatch

Spec == Init /\ [][Next]_vars

\* the logger without a card, serving clock commands
NextClock ==
  \/ WaitForCommandIdle
  \/ WaitForClockCommand
  \/ LoopNoAlarm

SpecClock == InitNoCard /\ [][NextClock]_vars

\* one step of the main program while no frame arrives: setup() once,
\* then loop() for ever
MainStep ==
  \/ Setup
  \/ WaitForCommandIdle
  \/ LoopAlarm
  \/ LoopNoAlarm

NextLive ==
  \/ MainStep
  \/ AlarmMatch

\* what every step of the main program does to its position, and no
\* alarm fire does
PositionMoves == pc' \in {"poll", "alarm"} /\ pc' # pc

\* the logger left alone with its alarm; the main program never stops:
\* setup() returns and loop() is called again and again
SpecLive == Init /\ [][NextLive]_vars /\ WF_pc(PositionMoves)

\* the times of day at which the alarm computation is tried
AlarmHours == {0, 12, 22, 23}

AlarmMinutes == {0, 1, 29, 30, 55, 58, 59}

\* the logger without a card, at some time of day, after
\* setSamplingInterval(interval) with any interval that it accepts
InitAlarm ==
  /\ \E interval \in 1..60, h \in AlarmHours, m \in AlarmMinutes :
       Loaded(setSamplingInterval(
                startListening(
                  PowerOn([year |-> 25, month |-> 1, day |-> 31, hour |-> h,
                           minute |-> m, second |-> 0], <<>>)),
                interval))
  /\ alarmTriggered = FALSE
  /\ req = <<>>
  /\ outcome = NoOutcome
  /\ pc = "program"
  /\ events = 0

\* setupNextAlarm() on its own
ProgramAlarm ==
  /\ pc = "program"
  /\ \E arr \in AlarmCleanupOutcomes(S, IOAllOk) :
       Commit(setupNextAlarm(S, IOAllOk, arr))
  /\ pc' = "poll"
  /\ UNCHANGED <<alarmTriggered, req, outcome, events>>

NextAlarm == ProgramAlarm

SpecAlarm == InitAlarm /\ [][NextAlarm]_vars

----------------------------------------------------------------------------
(* Properties.  A handler's result is observed in the state in which       *)
(* waitForCommand has just returned: pc = "alarm" with the frame in req.   *)

Handled == pc = "alarm" /\ req # <<>>

Request == req[1]

HandledCommand(c) == Handled /\ Request.command = c

\* the step in which waitForCommand handles a frame with the given opcode
HandlingStep(c) ==
  pc = "poll" /\ pc' = "alarm" /\ req' # <<>> /\ req'[1].command = c

OnCard(name) == \E i \in 1..Len(sd) : sd[i].name = name

\* the matching names on the card, in enumeration order
MatchingNames == LogFileNames(sd)

Min(a, b) == IF a < b THEN a ELSE b

\* the one-byte frames that open and close a file list
StartMarker == [command |-> CMD_LIST_START]

EndMarker == [command |-> CMD_LIST_END]

\* C1: whenever waitForCommand has handled a frame, whatever the opcode and
\* the outcome, and control is back in loop(), the radio is listening.
C1_ListeningAfterHandler == Handled => listening

\* a list request whose start marker was not acknowledged has been handled
C1_Witness ==
  /\ HandledCommand(CMD_FILE_LIST)
  /\ ~outcome.ack
  /\ tx = <<StartMarker>>
  /\ listening

\* C2: a REQUEST_DATA naming a file that is not on the card is answered
\* with no frame, and the radio listens afterwards.
C2_MissingFileNoFrames ==
  (HandledCommand(CMD_REQUEST_DATA) /\ ~OnCard(Request.filename))
    => (tx = <<>> /\ listening)

\* a request for a missing file was handled while the card holds files
C2_Witness ==
  /\ HandledCommand(CMD_REQUEST_DATA)
  /\ Request.filename = MissingName
  /\ sdAvailable
  /\ sd # <<>>
  /\ ~OnCard(MissingName)
  /\ tx = <<>>

\* C3 as claimed: a list request with no matching file is answered with the
\* start marker followed by the end marker.
C3_StartAndEndMarkers ==
  (HandledCommand(CMD_FILE_LIST) /\ MatchingNames = <<>>)
    => tx = <<StartMarker, EndMarker>>

\* C3 as amended: a list request with no matching file is answered with
\* exactly one frame, the end marker: no start marker and no entry.
C3_EndMarkerOnly ==
  (HandledCommand(CMD_FILE_LIST) /\ MatchingNames = <<>>)
    => tx = <<EndMarker>>

\* a list request was handled with a working card that holds no log file
C3_Witness ==
  /\ HandledCommand(CMD_FILE_LIST)
  /\ sdAvailable
  /\ outcome.io.root
  /\ MatchingNames = <<>>
  /\ tx = <<EndMarker>>

\* the frames of a complete list of the first m of the given names
ListFrames(names, m) ==
  <<StartMarker>> \o
  [i \in 1..m |-> [command |-> CMD_FILE_LIST, fileIndex |-> i - 1,
                   totalFiles |-> m, filename |-> names[i]]] \o
  <<EndMarker>>

\* a list request was handled, the root directory could be read, the card
\* holds at least one log file and the start marker was acknowledged
ListServed ==
  /\ HandledCommand(CMD_FILE_LIST)
  /\ sdAvailable
  /\ outcome.io.root
  /\ outcome.ack
  /\ MatchingNames # <<>>

OutOfRange(r, key, value) ==
  CASE key = RTC_KEY_MONTH  -> value \notin 1..12
    [] key = RTC_KEY_DAY    -> value \notin 1..DaysIn(r.month, 2000 + r.year)
    [] key = RTC_KEY_HOUR   -> value > 23
    [] key = RTC_KEY_MINUTE -> value > 59
    [] key = RTC_KEY_SECOND -> value > 59
    [] key = RTC_KEY_YEAR   -> value > 99
    [] OTHER                -> TRUE

ClockField(r, key) ==
  CASE key = RTC_KEY_MONTH  -> r.month
    [] key = RTC_KEY_DAY    -> r.day
    [] key = RTC_KEY_HOUR   -> r.hour
    [] key = RTC_KEY_MINUTE -> r.minute
    [] key = RTC_KEY_SECOND -> r.second
    [] key = RTC_KEY_YEAR   -> r.year

\* C6: a MODIFY_RTC is answered with exactly one frame, with command
\* MODIFY_RTC and the key of the request; its value is 1 when the value
\* was in range and the clock field now holds it, and 0 when the value was
\* out of range and the clock is as before.
C6_OneAnswerWithResult ==
  [][ HandlingStep(CMD_MODIFY_RTC) =>
      LET key == req'[1].key
          value == req'[1].value
      IN /\ Len(tx') = 1
         /\ tx'[1].command = CMD_MODIFY_RTC
         /\ tx'[1].key = key
         /\ \/ /\ tx'[1].value = 1
               /\ ~OutOfRange(rtc, key, value)
               /\ ClockField(rtc', key) = value
            \/ /\ tx'[1].value = 0
               /\ OutOfRange(rtc, key, value)
               /\ rtc' = rtc ]_vars

\* day 29 was written in February of a leap year and answered with 1
C6_Witness ==
  /\ HandledCommand(CMD_MODIFY_RTC)
  /\ Request.key = RTC_KEY_DAY
  /\ Request.value = 29
  /\ rtc.month = 2
  /\ rtc.day = 29
  /\ tx = <<[command |-> CMD_MODIFY_RTC, key |-> RTC_KEY_DAY, value |-> 1]>>

\* C7: a GET_RTC_INFO is answered with one frame that echoes the opcode and
\* the key; its value is the clock field for a key in 1..6, which is never
\* 0xFF, and 0xFF for any other key.
C7_FieldOrSentinel ==
  [][ HandlingStep(CMD_GET_RTC_INFO) =>
      LET key == req'[1].key
      IN /\ Len(tx') = 1
         /\ tx'[1].command = CMD_GET_RTC_INFO
         /\ tx'[1].key = key
         /\ rtc' = rtc
         /\ IF key \in 1..6
            THEN tx'[1].value = ClockField(rtc, key) /\ tx'[1].value # 255
            ELSE tx'[1].value = 255 ]_vars

\* an unknown key was answered with the sentinel
C7_Witness ==
  /\ HandledCommand(CMD_GET_RTC_INFO)
  /\ Request.key = 7
  /\ tx = <<[command |-> CMD_GET_RTC_INFO, key |-> 7, value |-> 255]>>

\* C8: from a valid date, after any sequence of MODIFY_RTC commands the
\* day is at most the number of days of the month, February having 29
\* days exactly in leap years.
C8_DayWithinMonth == rtc.day <= DaysIn(rtc.month, 2000 + rtc.year)

\* the data frames that carry the given records with indices 0..N-1
RecordFrames(recs) ==
  [i \in 1..Len(recs) |->
     [command |-> CMD_SEND_DATA, index |-> i - 1,
      timestamp |-> recs[i].label,
      value0 |-> recs[i].v[1], value1 |-> recs[i].v[2],
      value2 |-> recs[i].v[3], value3 |-> recs[i].v[4]]]

\* the file of the handled request was not on the card at power-on, N >= 1
\* measurement cycles have appended a record to it, and it is requested
\* from index 0 with numSamples = N and can be opened
WholeFreshFileRequested ==
  /\ HandledCommand(CMD_REQUEST_DATA)
  /\ sdAvailable
  /\ outcome.io.read
  /\ OnCard(Request.filename)
  /\ FileOf(sd, Request.filename).fresh
  /\ FileOf(sd, Request.filename).recs # <<>>
  /\ Request.startIndex = 0
  /\ Request.numSamples = Len(FileOf(sd, Request.filename).recs)

\* C9: when N records were appended to a day's file by N successful cycles
\* and the file is requested with startIndex 0 and numSamples N, the frames
\* sent are N data frames with indices 0..N-1 that carry the labels and the
\* values of the appended records, in append order.
C9_RoundTrip ==
  WholeFreshFileRequested =>
    tx = RecordFrames(FileOf(sd, Request.filename).recs)

\* the names among the given ones that are less than x
Below(names, x) == {i \in 1..Len(names) : strcmp(names[i], x) < 0}

\* the k smallest and the others of a list of distinct names
Smallest(names, k) ==
  {names[i] : i \in {j \in 1..Len(names) :
                       Cardinality(Below(names, names[j])) < k}}

\* the files on the card that were there at power-on
OldNamesLeft(dir) ==
  {dir[i].name : i \in {j \in 1..Len(dir) :
                          ~dir[j].fresh /\ IsLogFile(dir[j].name)}}

\* C10: when cleanupOldFiles runs (here in setup(), with the card available
\* and readable) on count matching files, it removes the count - MAX_DAYS
\* smallest names when count > MAX_DAYS and nothing otherwise.
C10_KeepsGreatest ==
  [][ (/\ pc = "setup" /\ pc' = "poll"
       /\ sdAvailable' /\ outcome'.io.root
       /\ AlarmCrossesMidnight(getCurrentDateTime(rtc), SETUP_INTERVAL))
      => LET names == LogFileNames(sd)
             all == {names[i] : i \in 1..Len(names)}
         IN OldNamesLeft(sd') =
              all \ Smallest(names, Len(names) - MAX_DAYS) ]_vars

\* C11: in every state of the running logger with the card in use, at most
\* MAX_DAYS files on the card match the naming pattern.
C11_AtMostMaxDays ==
  (pc # "setup" /\ sdAvailable) => Len(MatchingNames) <= MAX_DAYS

\* the number of lines of a file that are records
DataLineCount(lines) ==
  Cardinality({k \in 1..Len(lines) : lines[k] # Header})

\* the file of that name as it is on the card, an empty one if there is none
FileBefore(name) ==
  IF OnCard(name) THEN FileOf(sd, name)
  ELSE [name |-> name, lines |-> <<>>, recs |-> <<>>, fresh |-> TRUE]

\* the files to which the step has appended a record
AppendedTo ==
  {i \in 1..Len(sd') : Len(sd'[i].recs) > Len(FileBefore(sd'[i].name).recs)}

\* C12: whenever a record is appended to a file, the index written is the
\* number of data lines the file held before, so that the k-th data line
\* of a file carries index k, counting from 0.
C12_IndexIsLineCount ==
  [][ \A i \in AppendedTo :
        LET f == sd'[i]
            r == f.recs[Len(f.recs)]
        IN f.lines[Len(f.lines)] =
             RecordLine(DataLineCount(FileBefore(f.name).lines), r.label, r.v)
    ]_vars

\* the two-digit decimal numeral of a number below 100
TwoDigits(n) == <<Digits[(n \div 10) + 1], Digits[(n % 10) + 1]>>

\* the log file name of a date
NameOfDay(month, day) ==
  <<"T", "M", "P", "_">> \o TwoDigits(month) \o TwoDigits(day)
    \o <<".", "C", "S", "V">>

\* C13: a record is appended only to the file named after the month and
\* the day the clock shows in that cycle, and to that file alone; so once
\* the day has changed no record goes to the file of the day before.
C13_RecordGoesToFileOfTheDay ==
  [][ /\ Cardinality(AppendedTo) <= 1
      /\ \A i \in AppendedTo : sd'[i].name = NameOfDay(rtc.month, rtc.day)
    ]_vars

\* after a cycle on 02-01 the file of 02-01 holds the new record and the
\* file of 01-31 still holds only the record of the day before
C13_Witness ==
  /\ pc = "poll"
  /\ calls = <<"takeMeasurement", "setupNextAlarm">>
  /\ rtc.month = 2 /\ rtc.day = 1
  /\ OnCard(NameOfDay(2, 1))
  /\ Len(FileOf(sd, NameOfDay(2, 1)).recs) = 1
  /\ OnCard(NameOfDay(1, 31))
  /\ Len(FileOf(sd, NameOfDay(1, 31)).recs) = 1

\* sizeof(DataRequest), packed: command, startIndex, numSamples, filename,
\* key, value
RequestSize == 1 + 2 + 2 + MAX_FILENAME_LENGTH + 1 + 1

\* the one-byte frames of the client: the command it sends ahead of a data
\* request and its list request
ShortFrames == {<<CMD_REQUEST_DATA>>, <<CMD_FILE_LIST>>}

\* byte k of a payload as the receiver finds it: the sender pads a static
\* payload with zeros
PayloadByte(payload, k) == IF k <= Len(payload) THEN payload[k] ELSE 0

\* radio.read(&request, sizeof(request)) of a payload that ends before the
\* filename field
radioRead(payload) ==
  [command    |-> PayloadByte(payload, 1),
   startIndex |-> PayloadByte(payload, 2) + 256 * PayloadByte(payload, 3),
   numSamples |-> PayloadByte(payload, 4) + 256 * PayloadByte(payload, 5),
   filename   |-> <<>>,
   key        |-> PayloadByte(payload, RequestSize - 1),
   value      |-> PayloadByte(payload, RequestSize)]

\* waitForCommand() when a one-byte frame is available; the payload is
\* kept in outcome for the observer
WaitForShortFrame ==
  /\ pc = "poll"
  /\ listening
  /\ \E payload \in ShortFrames :
       LET request == radioRead(payload)
       IN /\ \E io \in IOFor(request), startAck \in AcksFor(request) :
               /\ Commit(handleCommand([S EXCEPT !.tx = <<>>,
                                                !.success = FALSE,
                                                !.calls = NoCalls],
                                       request, io, startAck))
               /\ outcome' = [io |-> io, ack |-> startAck,
                              payload |-> payload]
          /\ req' = <<request>>
  /\ pc' = "alarm"
  /\ UNCHANGED <<alarmTriggered, events>>

NextFrames ==
  \/ Setup
  \/ WaitForCommandIdle
  \/ WaitForShortFrame
  \/ LoopNoAlarm

\* the logger receiving the one-byte frames of the client
SpecFrames == Init /\ [][NextFrames]_vars

\* the arguments tried for setSamplingInterval: every interval it accepts
\* and its two neighbours
IntervalInputs == 0..61

\* the logger as setup() leaves it with a readable card
InitInterval ==
  /\ \E clock \in BootClocks, card \in OldStores :
       \E arr \in SetupCleanupOutcomes(PowerOn(clock, card), TRUE, IOAllOk) :
         Loaded(setup(PowerOn(clock, card), TRUE, IOAllOk, arr))
  /\ alarmTriggered = FALSE
  /\ req = <<>>
  /\ outcome = NoOutcome
  /\ pc = "interval"
  /\ events = 0

\* setSamplingInterval(interval) on its own; the argument is kept in
\* outcome for the observer
ChangeInterval ==
  /\ pc = "interval"
  /\ \E interval \in IntervalInputs :
       /\ Commit(setSamplingInterval(S, interval))
       /\ outcome' = [io |-> IOAllOk, ack |-> TRUE, interval |-> interval]
  /\ pc' = "poll"
  /\ UNCHANGED <<alarmTriggered, req, events>>

NextInterval == ChangeInterval

SpecInterval == InitInterval /\ [][NextInterval]_vars

\* the records of a whole day at the interval of setup()
FullDay == MINUTES_PER_DAY \div SETUP_INTERVAL

\* record k of the day as the logger wrote it
DayLine(clock, k) ==
  RecordLine(k, formatDateTime([clock EXCEPT
                                  !.hour = (SETUP_INTERVAL * k) \div 60,
                                  !.minute = (SETUP_INTERVAL * k) % 60,
                                  !.second = 0]),
             <<7, 45, 1023, 512>>)

\* the file of the clock's day holding n records
DayFile(clock, n) ==
  [name |-> FileNameOf(clock.month, clock.day),
   lines |-> <<Header>> \o [k \in 1..n |-> DayLine(clock, k - 1)],
   recs |-> <<>>, fresh |-> FALSE]

\* power-on late in the evening with a card whose file of the day is full,
\* or one record short of full
InitFullDay ==
  /\ \E clock \in BootClocks, n \in {FullDay - 1, FullDay} :
       Loaded(PowerOn(clock, <<DayFile(clock, n)>>))
  /\ alarmTriggered = FALSE
  /\ req = <<>>
  /\ outcome = NoOutcome
  /\ pc = "setup"
  /\ events = 0

\* the logger left alone with its alarm at the end of a full day
SpecFullDay == InitFullDay /\ [][NextLive]_vars

----------------------------------------------------------------------------
(* The first program of part_000: the same scheduler, clean-up and loop,   *)
(* an earlier takeMeasurement and another record format.  setup() sets the *)
(* clock to 2025-01-01 00:00:00 at every power-on.                         *)

\* "Index,Timestamp,DateTime,Temperature" written by println
HeaderFirst ==
  <<"I", "n", "d", "e", "x", ",", "T", "i", "m", "e", "s", "t", "a", "m", "p",
    ",", "D", "a", "t", "e", "T", "i", "m", "e", ",", "T", "e", "m", "p", "e",
    "r", "a", "t", "u", "r", "e", "\r">>

\* sprintf "%04d" of a year of four digits
Fmt04d(n) ==
  IF n < 10 THEN <<"0", "0", "0">> \o PrintInt(n)
  ELSE IF n < 100 THEN <<"0", "0">> \o PrintInt(n)
  ELSE IF n < 1000 THEN <<"0">> \o PrintInt(n)
  ELSE PrintInt(n)

\* sprintf(buffer, "%04d-%02d-%02d %02d:%02d:%02d", ...)
formatDateTimeFirst(dt) ==
  Fmt04d(dt.year) \o <<"-">> \o Fmt02d(dt.month) \o <<"-">> \o
  Fmt02d(dt.day) \o <<" ">> \o Fmt02d(dt.hour) \o <<":">> \o
  Fmt02d(dt.minute) \o <<":">> \o Fmt02d(dt.second)

\* getTimestampSeconds(): seconds since midnight
getTimestampSeconds(r) == r.hour * 3600 + r.minute * 60 + r.second

\* the temperatures as println prints them, two decimals
Temperatures == {<<"2", "5", ".", "0", "0">>, <<"-", "3", ".", "5", "0">>}

\* the line printed by the takeMeasurement of the first program
RecordLineFirst(index, timestamp, label, temperature) ==
  PrintInt(index) \o <<",">> \o PrintInt(timestamp) \o <<",">> \o label \o
  <<",">> \o temperature \o <<"\r">>

\* updateCurrentFilename() of the first program
updateCurrentFilenameFirst(s, io) ==
  LET now  == getCurrentDateTime(s.rtc)
      name == FileNameOf(now.month, now.day)
      s1   == [s EXCEPT !.currentFilename = name]
  IN IF ~SDexists(s1, name) /\ s1.sdAvailable
     THEN IF io.create
          THEN [s1 EXCEPT !.sd = AppendLine(CreateFile(s1.sd, name), name,
                                            HeaderFirst),
                          !.sampleCount = 0]
          ELSE s1
     ELSE IF s1.sdAvailable /\ io.read
     THEN [s1 EXCEPT !.sampleCount =
             CountDataLines(FileOf(s1.sd, name).lines) % 65536]
     ELSE s1

\* takeMeasurement() of the first program: it returns before it looks at
\* the date when the card is unavailable or the counter has reached the cap
takeMeasurementFirst(s, io, temperature) ==
  LET s1 == [Called(s, "takeMeasurement")
               EXCEPT !.maxSamplesPerDay =
                        MINUTES_PER_DAY \div s.samplingInterval]
  IN IF ~s1.sdAvailable \/ s1.sampleCount >= s1.maxSamplesPerDay THEN s1
     ELSE
       LET now == getCurrentDateTime(s1.rtc)
           newFilename == FileNameOf(now.month, now.day)
           s2 == IF newFilename # s1.currentFilename
                 THEN [updateCurrentFilenameFirst(
                         [s1 EXCEPT !.currentFilename = newFilename], io)
                        EXCEPT !.sampleCount = 0]
                 ELSE s1
           name == s2.currentFilename
           label == formatDateTimeFirst(now)
           line == RecordLineFirst(s2.sampleCount,
                                   getTimestampSeconds(s1.rtc), label,
                                   temperature)
           dir0 == IF FileIndex(s2.sd, name) = 0
                   THEN CreateFile(s2.sd, name) ELSE s2.sd
           dir1 == [AppendLine(dir0, name, line)
                      EXCEPT ![FileIndex(dir0, name)].recs =
                        Append(@, [label |-> label, v |-> temperature])]
       IN IF io.append
          THEN [s2 EXCEPT !.sd = dir1,
                          !.sampleCount = (s2.sampleCount + 1) % 65536]
          ELSE s2

\* the clock setup() of the first program starts from
FirstBoot ==
  [year |-> 25, month |-> 1, day |-> 1, hour |-> 0, minute |-> 0,
   second |-> 0]

\* the file of day d of January after n cycles; the first alarm of day 1
\* is at 00:05, that of every later day at 00:00
DayFileFirst(d, n) ==
  LET first == IF d = 1 THEN 1 ELSE 0
      at(k) == [FirstBoot EXCEPT
                  !.day = d,
                  !.hour = (SETUP_INTERVAL * (k + first)) \div 60,
                  !.minute = (SETUP_INTERVAL * (k + first)) % 60]
  IN [name |-> FileNameOf(1, d),
      lines |-> <<HeaderFirst>> \o
                [j \in 1..n |->
                   RecordLineFirst(j - 1, getTimestampSeconds(at(j - 1)),
                                   formatDateTimeFirst(
                                     getCurrentDateTime(at(j - 1))),
                                   <<"2", "5", ".", "0", "0">>)],
      recs |-> <<>>, fresh |-> FALSE]

\* the first program at 23:50 of its first or second day, after the cycle
\* of 23:50: day 1 has had 286 cycles (00:05 to 23:50), day 2 has had 287
\* (00:00 to 23:50); the alarm is programmed for 23:55
InitFirst ==
  /\ \E d \in {1, 2} :
       LET n == FullDay - 1 - (IF d = 1 THEN 1 ELSE 0)
       IN Loaded([PowerOn([FirstBoot EXCEPT !.day = d, !.hour = 23,
                                            !.minute = 50],
                          [i \in 1..d |->
                             DayFileFirst(i, IF i = d THEN n
                                             ELSE FullDay - 1)])
                    EXCEPT !.alarm = [enabled |-> TRUE, hour |-> 23,
                                      minute |-> 55, second |-> 0],
                           !.sdAvailable = TRUE,
                           !.currentFilename = FileNameOf(1, d),
                           !.sampleCount = n,
                           !.samplingInterval = SETUP_INTERVAL,
                           !.maxSamplesPerDay = FullDay,
                           !.listening = TRUE])
  /\ alarmTriggered = FALSE
  /\ req = <<>>
  /\ outcome = NoOutcome
  /\ pc = "poll"
  /\ events = 0

\* the rest of loop() of the first program when the flag is set
LoopAlarmFirst ==
  /\ pc = "alarm"
  /\ alarmTriggered
  /\ alarmTriggered' = FALSE
  /\ \E io \in IOSingleFailures, temperature \in Temperatures :
       LET s0 == [S EXCEPT !.calls = NoCalls, !.tx = <<>>, !.success = FALSE]
           s1 == takeMeasurementFirst(s0, io, temperature)
       IN \E arr \in AlarmCleanupOutcomes(s1, io) :
            /\ Commit(setupNextAlarm(s1, io, arr))
            /\ outcome' = [io |-> io, ack |-> TRUE]
  /\ req' = <<>>
  /\ pc' = "poll"
  /\ UNCHANGED events

NextFirst ==
  \/ WaitForCommandIdle
  \/ LoopAlarmFirst
  \/ LoopNoAlarm
  \/ AlarmMatch

\* the first program left alone with its alarm
SpecFirst == InitFirst /\ [][NextFirst]_vars

\* C14: for every interval i in 1..60 and every time hh:mm, setupNextAlarm
\* programs the alarm for hh:mm plus i minutes: minute (mm + i) mod 60, the
\* hour one more, modulo 24, exactly when mm + i >= 60, and second 0.
C14_AlarmIsNowPlusInterval ==
  [][ (pc = "program" /\ pc' = "poll") =>
      /\ alarm'.enabled
      /\ alarm'.minute = (rtc.minute + samplingInterval) % 60
      /\ alarm'.hour = IF rtc.minute + samplingInterval >= 60
                       THEN (rtc.hour + 1) % 24 ELSE rtc.hour
      /\ alarm'.second = 0 ]_vars

\* how often the latest pass has called f
CallsOf(f) == Cardinality({k \in 1..Len(calls) : calls[k] = f})

\* C15: whenever setupNextAlarm runs and the time one interval from now
\* falls on the next day, cleanupOldFiles runs in that call; the record of
\* that cycle, if any, went to the file of the day that is about to end.
C15_CleanupBeforeNewDay ==
  [][ (pc # "poll" /\ pc' = "poll" /\ CallsOf("setupNextAlarm")' = 1
        /\ 60 * rtc'.hour + rtc'.minute + samplingInterval' >= MINUTES_PER_DAY)
      => /\ calls'[Len(calls')] = "cleanupOldFiles"
         /\ CallsOf("cleanupOldFiles")' = 1
         /\ \A i \in AppendedTo : sd'[i].name = NameOfDay(rtc'.month, rtc'.day)
    ]_vars

\* the call log of a pass of loop() that served the alarm once
ServedOnce ==
  \/ calls = <<"takeMeasurement", "setupNextAlarm">>
  \/ calls = <<"takeMeasurement", "setupNextAlarm", "cleanupOldFiles">>

\* the records appended since power-on
RecordsAppended == [i \in 1..Len(sd) |-> Len(sd[i].recs)]

\* C16: the flag holds at most one pending fire.  A pass of loop() that
\* finds it set clears it and calls takeMeasurement once and then
\* setupNextAlarm once; a pass that finds it clear calls neither; a fire
\* only sets the flag, whether it was set or not, and runs nothing itself;
\* and a set flag is always served by a later pass.
C16_OnePendingFire ==
  /\ [][ /\ (pc = "alarm" /\ pc' = "poll" /\ alarmTriggered)
            => (~alarmTriggered' /\ ServedOnce')
         /\ (pc = "alarm" /\ pc' = "poll" /\ ~alarmTriggered)
            => (~alarmTriggered' /\ calls' = NoCalls)
         /\ (pc' = pc /\ events' # events)
            => (alarmTriggered' /\ calls' = calls /\ sd' = sd
                /\ alarm' = alarm)
         /\ (alarmTriggered' # alarmTriggered)
            => \/ pc' = pc /\ events' # events
               \/ pc = "alarm" /\ pc' = "poll" ]_vars
  /\ (alarmTriggered ~> (~alarmTriggered /\ ServedOnce))

\* two fires, a day apart, before loop() looked at the flag, and one
\* cycle served them: one record since power-on, the flag clear
C16_Witness ==
  /\ pc = "poll"
  /\ events = 2
  /\ rtc.month = 2 /\ rtc.day = 1 /\ rtc.hour = 23 /\ rtc.minute = 55
  /\ ~alarmTriggered
  /\ ServedOnce
  /\ sdAvailable
  /\ \E i \in 1..Len(sd) :
       RecordsAppended = [k \in 1..Len(sd) |-> IF k = i THEN 1 ELSE 0]

\* C17: when an alarm is handled while sampleCount has reached the samples
\* of a day (1440 / interval), no record is appended to any file in that
\* cycle, and the next alarm is programmed all the same.
C17_NoRecordAtCap ==
  [][ (/\ pc = "alarm" /\ pc' = "poll" /\ alarmTriggered
       /\ sampleCount >= MINUTES_PER_DAY \div samplingInterval)
      => /\ AppendedTo = {}
         /\ CallsOf("setupNextAlarm")' = 1
         /\ alarm'.enabled ]_vars

\* C18: while the card is unavailable, no step creates or writes a file or
\* moves sampleCount; a pass of loop() that finds the alarm flag set still
\* clears it, reads the sensor and programs the next alarm; and after every
\* pass and every handled command the radio listens again.
C18_DegradedWithoutCard ==
  [][ (pc # "setup" /\ ~sdAvailable)
      => /\ sd' = sd
         /\ sampleCount' = sampleCount
         /\ (pc = "alarm" /\ pc' = "poll" /\ alarmTriggered)
            => /\ ~alarmTriggered'
               /\ ServedOnce'
               /\ alarm'.enabled
               /\ alarm'.minute = (rtc.minute + samplingInterval) % 60
         /\ pc' # pc => listening' ]_vars

\* without the card in use, though one with files is in the slot, a pass
\* of loop() has just served an alarm: nothing was written
C18_Witness ==
  /\ pc = "poll"
  /\ ~sdAvailable
  /\ sd # <<>>
  /\ ServedOnce
  /\ ~alarmTriggered
  /\ listening
  /\ alarm.enabled
  /\ sampleCount = 0
  /\ \A i \in 1..Len(sd) : sd[i].recs = <<>> /\ ~sd[i].fresh

\* the index that the cycle about to run would write: 0 after a change of
\* file name or a full day, else the counter
IndexToWrite ==
  IF NameOfDay(rtc.month, rtc.day) # currentFilename
     \/ sampleCount >= MINUTES_PER_DAY \div samplingInterval
  THEN 0
  ELSE sampleCount

\* C19: if the open for append fails in a measurement cycle, no record
\* line is written to any file, and sampleCount after the cycle is the
\* index that would have been written.
C19_FailedOpenKeepsCounter ==
  [][ (/\ pc = "alarm" /\ pc' = "poll" /\ alarmTriggered
       /\ sdAvailable /\ ~outcome'.io.append)
      => /\ AppendedTo = {}
         /\ \A i \in 1..Len(sd') :
              OnCard(sd'[i].name) =>
                DataLineCount(sd'[i].lines) =
                  DataLineCount(FileOf(sd, sd'[i].name).lines)
         /\ sampleCount' = IndexToWrite ]_vars

\* the cycle of 23:55 could not open the file of the day, which holds two
\* records of an earlier run: nothing was added, the counter is still 2
C19_Witness ==
  /\ pc = "poll"
  /\ sdAvailable
  /\ ServedOnce
  /\ ~outcome.io.append
  /\ currentFilename = NameOfDay(1, 31)
  /\ OnCard(NameOfDay(1, 31))
  /\ DataLineCount(FileOf(sd, NameOfDay(1, 31)).lines) = 2
  /\ FileOf(sd, NameOfDay(1, 31)).recs = <<>>
  /\ sampleCount = 2

\* updateCurrentFilename was the last thing to touch the card and the
\* counter, all its SD calls succeeded, and the date is still the same:
\* setup() has just run, or a write of the month or the day was accepted
AfterUpdate ==
  /\ outcome.io = IOAllOk
  /\ currentFilename = NameOfDay(rtc.month, rtc.day)
  /\ \/ /\ pc = "poll"
        /\ CallsOf("setupNextAlarm") = 1
        /\ CallsOf("takeMeasurement") = 0
     \/ /\ HandledCommand(CMD_MODIFY_RTC)
        /\ success
        /\ Request.key \in {RTC_KEY_MONTH, RTC_KEY_DAY}

\* C20: a second updateCurrentFilename for the same date, with no append in
\* between, leaves sampleCount (and the card and the active name) as the
\* first call left them, whether the first call created the file or
\* counted its data lines, and whatever the SD calls of the second do.
C20_SecondCallSameCounter ==
  AfterUpdate =>
    \A io \in IOOutcomes :
      LET again == updateCurrentFilename(S, io)
      IN /\ again.sampleCount = sampleCount
         /\ again.sd = sd
         /\ again.currentFilename = currentFilename

\* setup() counted the two records of the file of 01-31; then the day was
\* set to 30 and the first call for that date created the file: counter 0
C20_Witness ==
  /\ AfterUpdate
  /\ sdAvailable
  /\ HandledCommand(CMD_MODIFY_RTC)
  /\ OnCard(NameOfDay(1, 31))
  /\ DataLineCount(FileOf(sd, NameOfDay(1, 31)).lines) = 2
  /\ currentFilename = NameOfDay(1, 30)
  /\ OnCard(currentFilename)
  /\ FileOf(sd, currentFilename).fresh
  /\ FileOf(sd, currentFilename).lines = <<Header>>
  /\ sampleCount = 0

\* C21: for every interval i in 1..60, setSamplingInterval(i) leaves
\* samplingInterval = i, maxSamplesPerDay = 1440 div i and sampleCount = 0.
C21_IntervalSetsCapAndCounter ==
  [][ (pc = "interval" /\ pc' = "poll" /\ outcome'.interval \in 1..60)
      => /\ samplingInterval' = outcome'.interval
         /\ maxSamplesPerDay' * outcome'.interval <= 1440
         /\ (maxSamplesPerDay' + 1) * outcome'.interval > 1440
         /\ sampleCount' = 0 ]_vars

\* the interval was changed to 7 with two records counted: the cap is 205
\* and the counter is back at 0
C21_Witness ==
  /\ pc = "poll"
  /\ outcome = [io |-> IOAllOk, ack |-> TRUE, interval |-> 7]
  /\ samplingInterval = 7
  /\ maxSamplesPerDay = 205
  /\ sampleCount = 0
  /\ OnCard(currentFilename)
  /\ DataLineCount(FileOf(sd, currentFilename).lines) = 2

\* C22: the active file name is the prefix, the month as two zero-padded
\* digits, the day as two zero-padded digits and the extension, whatever
\* the year, hour, minute and second of the clock; no other (month, day)
\* of the calendar gives that name.
C22_NameFromMonthAndDay ==
  /\ currentFilename = NameOfDay(rtc.month, rtc.day)
  /\ Len(currentFilename) = 12
  /\ \A month \in 1..12, day \in 1..31 :
       FileNameOf(month, day) = currentFilename
         => month = rtc.month /\ day = rtc.day

\* the year has just been set to 99 and the name is still that of the
\* month and day
C22_Witness ==
  /\ HandledCommand(CMD_MODIFY_RTC)
  /\ Request.key = RTC_KEY_YEAR
  /\ success
  /\ rtc.year = 99
  /\ currentFilename = NameOfDay(rtc.month, rtc.day)

\* C23: after an accepted MODIFY_RTC of the month or the day with the card
\* available, currentFilename is the name of the new (month, day), that
\* file exists and starts with the header line, and sampleCount is the
\* number of data lines in it.
C23_FileResolvedAfterDateWrite ==
  [][ (/\ HandlingStep(CMD_MODIFY_RTC)
       /\ req'[1].key \in {RTC_KEY_MONTH, RTC_KEY_DAY}
       /\ success'
       /\ sdAvailable')
      => /\ currentFilename' = NameOfDay(rtc'.month, rtc'.day)
         /\ \E i \in 1..Len(sd') :
              /\ sd'[i].name = currentFilename'
              /\ sd'[i].lines # <<>>
              /\ sd'[i].lines[1] = Header
              /\ sampleCount' = DataLineCount(sd'[i].lines) ]_vars

\* the opcodes the protocol defines
DefinedCommands ==
  {CMD_REQUEST_DATA, CMD_SEND_DATA, CMD_LIST_FILES, CMD_FILE_LIST,
   CMD_MODIFY_RTC, CMD_GET_RTC_INFO, CMD_LIST_START, CMD_LIST_END}

\* C24: a request frame whose opcode is none of the protocol's is answered
\* with a response frame (one that carries a failure indicator); it is
\* never dropped without a response.
C24_UnknownOpcodeAnswered ==
  (Handled /\ Request.command \notin DefinedCommands) => tx # <<>>

\* C25: a received frame smaller than the request frame is discarded: no
\* handler runs for it, no response frame is sent, and the radio stays in
\* listening mode.
C25_ShortFrameDiscarded ==
  (Handled /\ Len(outcome.payload) < RequestSize)
    => /\ tx = <<>>
       /\ listening

\* the data lines of a file, in file order
DataLines(lines) ==
  LET at == {k \in 1..Len(lines) : lines[k] # Header}
  IN [j \in 1..Cardinality(at) |->
        lines[CHOOSE k \in at : Cardinality({m \in at : m < k}) = j - 1]]

\* the frame carries the label and the four values of the record line
CarriesLine(frame, line) ==
  \E index \in 0..(MINUTES_PER_DAY \div SETUP_INTERVAL) :
    line = RecordLine(index, frame.timestamp,
                      <<frame.value0, frame.value1, frame.value2,
                        frame.value3>>)

\* C26: for an existing file with L data lines and a request (startIndex,
\* numSamples), exactly min(numSamples, max(0, L - startIndex)) data frames
\* are sent; frame k (from 0) carries index startIndex + k and the contents
\* of data line startIndex + k.
C26_FramesOfRequestedRange ==
  (HandledCommand(CMD_REQUEST_DATA) /\ sdAvailable /\ OnCard(Request.filename))
    => LET data == DataLines(FileOf(sd, Request.filename).lines)
           left == IF Len(data) > Request.startIndex
                   THEN Len(data) - Request.startIndex ELSE 0
       IN /\ Len(tx) = Min(Request.numSamples, left)
          /\ \A k \in 0..(Len(tx) - 1) :
               /\ tx[k + 1].command = CMD_SEND_DATA
               /\ tx[k + 1].index = Request.startIndex + k
               /\ CarriesLine(tx[k + 1], data[Request.startIndex + k + 1])

\* C27: every frame the server transmits is written in transmit mode: in
\* the call log of every handler each radio.write comes after a
\* stopListening with no startListening in between, and the frames sent are
\* those writes.
C27_WritesInTransmitMode ==
  /\ \A k \in 1..Len(calls) :
       calls[k] = "radio.write" =>
         \E j \in 1..(k - 1) :
           /\ calls[j] = "stopListening"
           /\ \A m \in (j + 1)..(k - 1) : calls[m] # "startListening"
  /\ Handled => CallsOf("radio.write") = Len(tx)

\* a list of two entries between its markers has been sent: four writes
\* between one stopListening and one startListening
C27_Witness ==
  /\ HandledCommand(CMD_FILE_LIST)
  /\ Len(tx) = 4
  /\ calls = <<"stopListening", "radio.write", "radio.write",
               "radio.write", "radio.write", "startListening">>

\* the logged calls of the sampling cycle, and those of the radio
CycleCalls == {"takeMeasurement", "setupNextAlarm", "cleanupOldFiles"}

RadioCalls == {"stopListening", "radio.write", "startListening"}

\* C28: the sampling cycle and a command handler are never active
\* together.  An alarm fire only sets the flag; a handler makes no call of
\* the cycle and leaves the flag as it is, also when it is set; the cycle
\* makes no call of the radio, sends nothing and handles no frame.
C28_CycleAndHandlerApart ==
  [][ /\ (pc' = pc /\ events' # events)
         => /\ alarmTriggered'
            /\ UNCHANGED <<alarm, sdAvailable, sd, currentFilename,
                           sampleCount, samplingInterval, fileNames,
                           fileCount, listening, req, tx, calls>>
      /\ (pc = "poll" /\ pc' = "alarm")
         => /\ alarmTriggered' = alarmTriggered
            /\ \A k \in 1..Len(calls') : calls'[k] \notin CycleCalls
      /\ (pc = "alarm" /\ pc' = "poll")
         => /\ req' = <<>>
            /\ tx' = <<>>
            /\ listening' = listening
            /\ \A k \in 1..Len(calls') : calls'[k] \notin RadioCalls ]_vars

\* the alarm fired before a list request was served: the handler has sent
\* its frames and returned, the flag is still set and no cycle has run
C28_Witness ==
  /\ HandledCommand(CMD_FILE_LIST)
  /\ alarmTriggered
  /\ Len(tx) >= 3
  /\ CallsOf("radio.write") = Len(tx)
  /\ CallsOf("takeMeasurement") = 0
  /\ \A i \in 1..Len(sd) : sd[i].recs = <<>>

\* C29: the cap is recoverable.  When an alarm is handled with sampleCount
\* at the cap and the date no longer that of the active file, and the SD
\* calls of the cycle succeed, the file of the new day becomes the active
\* file and exists, one record is appended to it and to no other file, and
\* the counter has restarted: it is 1 after the cycle.
C29_CapRecoversNextDay ==
  [][ (/\ pc = "alarm" /\ pc' = "poll" /\ alarmTriggered
       /\ sdAvailable
       /\ sampleCount >= MINUTES_PER_DAY \div samplingInterval
       /\ currentFilename # NameOfDay(rtc.month, rtc.day)
       /\ outcome'.io = IOAllOk)
      => /\ currentFilename' = NameOfDay(rtc.month, rtc.day)
         /\ \E i \in 1..Len(sd') :
              /\ sd'[i].name = currentFilename'
              /\ AppendedTo = {i}
         /\ sampleCount' = 1 ]_vars

\* C30: when the updateCurrentFilename of an accepted MODIFY_RTC of the
\* month or the day cannot create or open the file of the new date (the
\* card is unavailable, the file is missing and is not created, or the file
\* is there and the open for reading fails), sampleCount is 0 afterwards,
\* whatever it was before.
C30_FailedResolveZeroesCounter ==
  [][ (/\ HandlingStep(CMD_MODIFY_RTC)
       /\ req'[1].key \in {RTC_KEY_MONTH, RTC_KEY_DAY}
       /\ success'
       /\ \/ ~sdAvailable'
          \/ ~\E i \in 1..Len(sd') :
                sd'[i].name = NameOfDay(rtc'.month, rtc'.day)
          \/ /\ \E i \in 1..Len(sd) :
                  sd[i].name = NameOfDay(rtc'.month, rtc'.day)
             /\ ~outcome'.io.read)
      => sampleCount' = 0 ]_vars

----------------------------------------------------------------------------
(* The clock runs while modifyRTC reads and writes it: the six registers   *)
(* are read one call at a time and written back one call at a time.        *)

\* the RTC's own step of one second
TickSecond(r) ==
  IF r.second < 59 THEN [r EXCEPT !.second = r.second + 1]
  ELSE IF r.minute < 59 THEN [r EXCEPT !.second = 0, !.minute = r.minute + 1]
  ELSE IF r.hour < 23
  THEN [r EXCEPT !.second = 0, !.minute = 0, !.hour = r.hour + 1]
  ELSE [NextDay(r) EXCEPT !.second = 0, !.minute = 0, !.hour = 0]

\* the order of the register calls in getCurrentDateTime and setDateTime
RegisterOrder == <<"hour", "minute", "second", "day", "month", "year">>

RegisterPosition(f) == CHOOSE i \in 1..6 : RegisterOrder[i] = f

\* getCurrentDateTime() when the second steps after `done` of its reads
getCurrentDateTimeTicking(r, done) ==
  LET torn == [f \in DOMAIN r |->
                 IF RegisterPosition(f) <= done THEN r[f]
                 ELSE TickSecond(r)[f]]
  IN getCurrentDateTime(torn)

\* setDateTime(dt) when the second steps after `done` of its writes
setDateTimeTicking(r, dt, done) ==
  LET w  == setDateTime(r, dt)
      r1 == [f \in DOMAIN r |->
               IF RegisterPosition(f) <= done THEN w[f] ELSE r[f]]
      r2 == TickSecond(r1)
  IN [f \in DOMAIN r |-> IF RegisterPosition(f) > done THEN w[f] ELSE r2[f]]

\* where the second steps inside the handler: 0 not at all, 1..5 after
\* that many reads, 6 between the last read and the first write, 7..11
\* after one to five writes
TicksAt == 0..11

\* modifyRTC(key, value) with the step of the clock at tickAt
modifyRTCTicking(s, key, value, io, tickAt) ==
  LET current == IF tickAt \in 1..5
                 THEN getCurrentDateTimeTicking(s.rtc, tickAt)
                 ELSE getCurrentDateTime(s.rtc)
      valid   == rtcValueValid(current, key, value)
      clock   == IF tickAt \in 1..6 THEN TickSecond(s.rtc) ELSE s.rtc
      new     == rtcWithField(current, key, value)
      written == IF tickAt \in 7..11
                 THEN setDateTimeTicking(clock, new, tickAt - 6)
                 ELSE setDateTime(clock, new)
  IN IF valid
     THEN LET s1 == [s EXCEPT !.rtc = written]
              s2 == IF key = RTC_KEY_MONTH \/ key = RTC_KEY_DAY
                    THEN updateCurrentFilename(s1, io)
                    ELSE s1
          IN [s2 EXCEPT !.success = TRUE]
     ELSE [s EXCEPT !.rtc = clock, !.success = FALSE]

\* the clocks the runs with a running second start from
TickingClocks ==
  { [year |-> 25, month |-> 6, day |-> 15, hour |-> 10, minute |-> 59,
     second |-> 59],
    [year |-> 25, month |-> 12, day |-> 31, hour |-> 23, minute |-> 59,
     second |-> 59],
    [year |-> 25, month |-> 3, day |-> 10, hour |-> 12, minute |-> 30,
     second |-> 20] }

\* the clock writes tried while the second runs
TickingWrites ==
  {<<RTC_KEY_DAY, 20>>, <<RTC_KEY_MINUTE, 15>>, <<RTC_KEY_HOUR, 24>>}

InitTicking ==
  /\ \E clock \in TickingClocks :
       Loaded(setup(PowerOn(clock, <<>>), FALSE, IOAllOk, <<>>))
  /\ alarmTriggered = FALSE
  /\ req = <<>>
  /\ outcome = NoOutcome
  /\ pc = "poll"
  /\ events = 0

\* waitForCommand() handling a MODIFY_RTC while the second runs
WaitForCommandTicking ==
  /\ pc = "poll"
  /\ listening
  /\ events < MaxEvents
  /\ \E w \in TickingWrites, tickAt \in TicksAt :
       LET request == [command |-> CMD_MODIFY_RTC, startIndex |-> 0,
                       numSamples |-> 0, filename |-> <<>>,
                       key |-> w[1], value |-> w[2]]
           s1 == modifyRTCTicking([S EXCEPT !.tx = <<>>, !.success = FALSE,
                                           !.calls = NoCalls],
                                  w[1], w[2], IOAllOk, tickAt)
           response == RtcResponse(CMD_MODIFY_RTC, w[1],
                                   IF s1.success THEN 1 ELSE 0)
       IN /\ Commit(startListening(radioWrite(stopListening(s1), response)))
          /\ outcome' = [io |-> IOAllOk, ack |-> TRUE, tickAt |-> tickAt]
          /\ req' = <<request>>
  /\ events' = events + 1
  /\ pc' = "alarm"
  /\ UNCHANGED alarmTriggered

NextTicking ==
  \/ WaitForCommandIdle
  \/ WaitForCommandTicking
  \/ LoopNoAlarm

\* the logger without a card, serving clock writes while the second runs
SpecTicking == InitTicking /\ [][NextTicking]_vars

\* the five clock fields a key does not name
OtherFields(key) ==
  {"year", "month", "day", "hour", "minute", "second"} \
  { CASE key = RTC_KEY_MONTH  -> "month"
      [] key = RTC_KEY_DAY    -> "day"
      [] key = RTC_KEY_HOUR   -> "hour"
      [] key = RTC_KEY_MINUTE -> "minute"
      [] key = RTC_KEY_SECOND -> "second"
      [] key = RTC_KEY_YEAR   -> "year"
      [] OTHER                -> "none" }

\* C31: an accepted MODIFY_RTC of one field changes only that field: each
\* of the other five clock fields holds after the command the value the
\* clock held immediately before it, also when the second steps between
\* the handler's reads of the clock and its writes.
C31_OnlyThatFieldChanges ==
  [][ (HandlingStep(CMD_MODIFY_RTC) /\ success')
      => \A f \in OtherFields(req'[1].key) : rtc'[f] = rtc[f] ]_vars

\* C32: handling REQUEST_DATA, a file-list request or GET_RTC_INFO leaves
\* the files on the card and their contents, currentFilename, sampleCount,
\* samplingInterval, the clock fields and the programmed alarm unchanged.
C32_ReadOnlyHandlers ==
  [][ (\/ HandlingStep(CMD_REQUEST_DATA)
       \/ HandlingStep(CMD_FILE_LIST)
       \/ HandlingStep(CMD_GET_RTC_INFO))
      => UNCHANGED <<sd, currentFilename, sampleCount, samplingInterval,
                     rtc, alarm>> ]_vars

\* a record of the active file was streamed while the counter is not 0
C32_Witness ==
  /\ Handled
  /\ Request.command = CMD_REQUEST_DATA
  /\ Request.filename = currentFilename
  /\ Len(tx) >= 1
  /\ sampleCount >= 1
  /\ alarm.enabled

\* C33: each enumeration stores at most as many names as its array holds.
\* scanFiles leaves fileCount <= MAX_FILES and as many names in fileNames;
\* when cleanupOldFiles runs (here in setup(), with the card available and
\* readable) it stores one name for every matching file on the card, at the
\* indexes 0 to count - 1, so count is at most MAX_DAYS.
C33_EnumerationWithinArrays ==
  [][ /\ fileCount' <= MAX_FILES
      /\ Len(fileNames') <= MAX_FILES
      /\ (/\ pc = "setup" /\ pc' = "poll"
          /\ sdAvailable' /\ outcome'.io.root
          /\ AlarmCrossesMidnight(getCurrentDateTime(rtc), SETUP_INTERVAL))
         => Len(LogFileNames(sd)) <= MAX_DAYS ]_vars

\* C34: retention never deletes the file of the current calendar day: a
\* file on the card that carries the name of the clock's (month, day) is
\* still on the card after every step, with the lines it had.
C34_CleanupKeepsCurrentDay ==
  [][ \A i \in 1..Len(sd) :
        sd[i].name = NameOfDay(rtc.month, rtc.day)
        => \E j \in 1..Len(sd') :
             /\ sd'[j].name = sd[i].name
             /\ Len(sd'[j].lines) >= Len(sd[i].lines)
             /\ SubSeq(sd'[j].lines, 1, Len(sd[i].lines)) = sd[i].lines ]_vars

\* the seconds from clock time r to the next match of alarm time a
SecondsToAlarm(r, a) ==
  ((a.hour * 3600 + a.minute * 60 + a.second)
   - (r.hour * 3600 + r.minute * 60 + r.second) + 86400) % 86400

\* C35: after an accepted MODIFY_RTC that changes the hour or the minute,
\* the programmed alarm is at most samplingInterval minutes ahead of the
\* new clock time.
C35_AlarmWithinIntervalAfterWrite ==
  [][ (/\ HandlingStep(CMD_MODIFY_RTC)
       /\ req'[1].key \in {RTC_KEY_HOUR, RTC_KEY_MINUTE}
       /\ success'
       /\ (rtc'.hour # rtc.hour \/ rtc'.minute # rtc.minute))
      => /\ alarm'.enabled
         /\ SecondsToAlarm(rtc', alarm') <= 60 * samplingInterval' ]_vars

----------------------------------------------------------------------------
(* The second program of part_000 (RTClock).  Its clock is a counter of    *)
(* seconds, used as the seconds since midnight, and the date is the global *)
(* currentDay = year * 10000 + month * 100 + day.  In the runs of this     *)
(* program rtc is the record [time, currentDay] and alarm is [enabled,     *)
(* time]; alarmTriggered is the alarm flag of the RTC.                     *)

SAMPLES_PER_DAY == 144

\* alarmTime = currentTime + 600
ALARM_STEP == 600

SECONDS_PER_DAY == 86400

\* sprintf(currentFilename, "TEMP_%02d%02d.CSV", now.month, now.day)
FileNameSecond(month, day) ==
  <<"T", "E", "M", "P", "_">> \o Fmt02d(month) \o Fmt02d(day) \o EXT

\* the filter of cleanupOldFiles in the second program:
\*   strncmp(name, "TEMP_", 5) == 0 && strlen(name) == 12 &&
\*   strcmp(name + 8, ".CSV") == 0
IsLogFileSecond(name) ==
  /\ Len(name) >= 5
  /\ SubSeq(name, 1, 5) = <<"T", "E", "M", "P", "_">>
  /\ Len(name) = 12
  /\ SubSeq(name, 9, Len(name)) = EXT

RECURSIVE LogFileNamesSecond(_)
LogFileNamesSecond(dir) ==
  IF dir = <<>> THEN <<>>
  ELSE IF IsLogFileSecond(Head(dir).name)
       THEN <<Head(dir).name>> \o LogFileNamesSecond(Tail(dir))
       ELSE LogFileNamesSecond(Tail(dir))

\* getCurrentDateTime() of the second program
getCurrentDateTimeSecond(r) ==
  [hour |-> (r.time \div 3600) % 24, minute |-> (r.time \div 60) % 60,
   second |-> r.time % 60, year |-> r.currentDay \div 10000,
   month |-> (r.currentDay \div 100) % 100, day |-> r.currentDay % 100]

\* dt.year * 10000 + dt.month * 100 + dt.day
DayValue(dt) == dt.year * 10000 + dt.month * 100 + dt.day

\* updateCurrentFilename() of the second program
updateCurrentFilenameSecond(s, io) ==
  LET now  == getCurrentDateTimeSecond(s.rtc)
      name == FileNameSecond(now.month, now.day)
      s1   == [s EXCEPT !.currentFilename = name]
  IN IF ~SDexists(s1, name) /\ s1.sdAvailable
     THEN IF io.create
          THEN [s1 EXCEPT !.sd = AppendLine(CreateFile(s1.sd, name), name,
                                            HeaderFirst),
                          !.sampleCount = 0]
          ELSE s1
     ELSE IF s1.sdAvailable /\ io.read
     THEN [s1 EXCEPT !.sampleCount =
             CountDataLines(FileOf(s1.sd, name).lines)]
     ELSE s1

\* takeMeasurement() of the second program
takeMeasurementSecond(s, io, temperature) ==
  LET s1 == Called(s, "takeMeasurement")
  IN IF ~s1.sdAvailable \/ s1.sampleCount >= SAMPLES_PER_DAY THEN s1
     ELSE
       LET now   == getCurrentDateTimeSecond(s1.rtc)
           name  == s1.currentFilename
           label == formatDateTimeFirst(now)
           line  == RecordLineFirst(s1.sampleCount, s1.rtc.time, label,
                                    temperature)
           dir0  == IF FileIndex(s1.sd, name) = 0
                    THEN CreateFile(s1.sd, name) ELSE s1.sd
           dir1  == [AppendLine(dir0, name, line)
                       EXCEPT ![FileIndex(dir0, name)].recs =
                         Append(@, [label |-> label, v |-> temperature])]
       IN IF io.append
          THEN [s1 EXCEPT !.sd = dir1, !.sampleCount = s1.sampleCount + 1]
          ELSE s1

\* the date step of setupNextAlarm in the second program; dt.day is a
\* uint8_t
NextDateSecond(dt) ==
  LET d == (dt.day + 1) % 256
      leap == (dt.year % 4 = 0 /\ dt.year % 100 # 0) \/ dt.year % 400 = 0
  IN IF dt.month \in {4, 6, 9, 11} /\ d > 30
     THEN [dt EXCEPT !.day = 1, !.month = dt.month + 1]
     ELSE IF dt.month = 2
     THEN IF (leap /\ d > 29) \/ (~leap /\ d > 28)
          THEN [dt EXCEPT !.day = 1, !.month = dt.month + 1]
          ELSE [dt EXCEPT !.day = d]
     ELSE IF d > 31
     THEN IF dt.month + 1 > 12
          THEN [dt EXCEPT !.day = 1, !.month = 1, !.year = dt.year + 1]
          ELSE [dt EXCEPT !.day = 1, !.month = dt.month + 1]
     ELSE [dt EXCEPT !.day = d]

\* the possible contents of the local array of the clean-up of the second
\* program after its enumeration loop
CleanupOutcomesSecond(s, io) ==
  LET names == IF s.sdAvailable /\ io.root
               THEN LogFileNamesSecond(s.sd) ELSE <<>>
  IN IF s.rtc.time + ALARM_STEP >= SECONDS_PER_DAY
     THEN ArraysReadBack(names, Len(names))
     ELSE {<<>>}

\* setupNextAlarm() of the second program; arr is the array of the
\* clean-up, if it runs
setupNextAlarmSecond(s0, io, arr) ==
  LET s == Called(s0, "setupNextAlarm")
      alarmTime == s.rtc.time + ALARM_STEP
  IN IF alarmTime >= SECONDS_PER_DAY
     THEN LET dt == NextDateSecond(getCurrentDateTimeSecond(s.rtc))
              s1 == [s EXCEPT !.rtc.currentDay = DayValue(dt)]
          IN [cleanupOldFiles(s1, io, arr)
                EXCEPT !.alarm = [enabled |-> TRUE,
                                  time |-> alarmTime - SECONDS_PER_DAY]]
     ELSE [s EXCEPT !.alarm = [enabled |-> TRUE, time |-> alarmTime]]

\* the body of the if of loop() in the second program
serveAlarmSecond(s, io, temperature, arr) ==
  LET now == getCurrentDateTimeSecond(s.rtc)
      dayValue == DayValue(now)
      s1 == IF dayValue # s.rtc.currentDay
            THEN updateCurrentFilenameSecond(
                   [s EXCEPT !.rtc.currentDay = dayValue], io)
            ELSE s
  IN setupNextAlarmSecond(takeMeasurementSecond(s1, io, temperature),
                          io, arr)

\* the file of 2025-01-01 after n cycles, the first at 00:10
DayFileSecond(n) ==
  [name |-> FileNameSecond(1, 1),
   lines |-> <<HeaderFirst>> \o
             [j \in 1..n |->
                RecordLineFirst(j - 1, ALARM_STEP * j,
                                formatDateTimeFirst(getCurrentDateTimeSecond(
                                  [time |-> ALARM_STEP * j,
                                   currentDay |-> 20250101])),
                                <<"2", "5", ".", "0", "0">>)],
   recs |-> <<>>, fresh |-> FALSE]

\* the second program on its first day, 2025-01-01, after the cycle of
\* 23:40 (142 records, alarm at 23:50) or after the cycle of 23:50 (143
\* records, the date already stepped, alarm at 00:00)
InitSecond ==
  /\ \E n \in {SAMPLES_PER_DAY - 2, SAMPLES_PER_DAY - 1} :
       Loaded([PowerOn([time |-> ALARM_STEP * n,
                        currentDay |-> IF n = SAMPLES_PER_DAY - 1
                                       THEN 20250102 ELSE 20250101],
                       <<DayFileSecond(n)>>)
                 EXCEPT !.alarm = [enabled |-> TRUE,
                                   time |-> (ALARM_STEP * (n + 1))
                                            % SECONDS_PER_DAY],
                        !.sdAvailable = TRUE,
                        !.currentFilename = FileNameSecond(1, 1),
                        !.sampleCount = n,
                        !.maxSamplesPerDay = SAMPLES_PER_DAY,
                        !.listening = TRUE])
  /\ alarmTriggered = FALSE
  /\ req = <<>>
  /\ outcome = NoOutcome
  /\ pc = "poll"
  /\ events = 0

\* the rest of loop() of the second program when the alarm flag is set
LoopAlarmSecond ==
  /\ pc = "alarm"
  /\ alarmTriggered
  /\ alarmTriggered' = FALSE
  /\ \E io \in IOSingleFailures, temperature \in Temperatures :
       LET s0 == [S EXCEPT !.calls = NoCalls, !.tx = <<>>, !.success = FALSE]
       IN \E arr \in CleanupOutcomesSecond(s0, io) :
            /\ Commit(serveAlarmSecond(s0, io, temperature, arr))
            /\ outcome' = [io |-> io, ack |-> TRUE]
  /\ req' = <<>>
  /\ pc' = "poll"
  /\ UNCHANGED events

\* the counter reaches the alarm time and the RTC sets its alarm flag
AlarmMatchSecond ==
  /\ pc # "setup"
  /\ alarm.enabled
  /\ events < MaxEvents
  /\ rtc' = [rtc EXCEPT !.time = alarm.time]
  /\ alarmTriggered' = TRUE
  /\ events' = events + 1
  /\ UNCHANGED <<alarm, sdAvailable, sd, currentFilename, sampleCount,
                 samplingInterval, maxSamplesPerDay, fileNames, fileCount,
                 listening, dataFile, req, tx, success, outcome, calls, pc>>

NextSecond ==
  \/ WaitForCommandIdle
  \/ LoopAlarmSecond
  \/ LoopNoAlarm
  \/ AlarmMatchSecond

\* the second program left alone with its alarm
SpecSecond == InitSecond /\ [][NextSecond]_vars

\* C36: in the second program, at the first alarm handled after the stored
\* date has stepped to a new day (the active file is not the file of the
\* stored date), with the card available, the counter below the cap and no
\* failing SD call, the file of the stored date becomes the active file
\* and the sample of the cycle is appended to it and to no other file.
C36_SampleGoesToNewDay ==
  [][ (/\ pc = "alarm" /\ pc' = "poll" /\ alarmTriggered
       /\ sdAvailable
       /\ sampleCount < SAMPLES_PER_DAY
       /\ currentFilename #
            FileNameSecond(getCurrentDateTimeSecond(rtc).month,
                           getCurrentDateTimeSecond(rtc).day)
       /\ outcome'.io = IOAllOk)
      => /\ currentFilename' =
              FileNameSecond(getCurrentDateTimeSecond(rtc).month,
                             getCurrentDateTimeSecond(rtc).day)
         /\ \E i \in 1..Len(sd') :
              /\ sd'[i].name = currentFilename'
              /\ AppendedTo = {i} ]_vars

----------------------------------------------------------------------------
(* The file name of a date against the filter of the enumeration, in the   *)
(* three programs: the file of the date is resolved on an empty card and   *)
(* the card is enumerated.  outcome.variant names the program.             *)

Variants == {"part_001", "first", "second"}

\* the year of the dates tried, a leap year
NAME_YEAR == 2024

InitNames ==
  /\ \E variant \in Variants, month \in 1..12, day \in 1..31 :
       /\ day <= DaysIn(month, NAME_YEAR)
       /\ Loaded([PowerOn(IF variant = "second"
                          THEN [time |-> 0,
                                currentDay |->
                                  DayValue([year |-> NAME_YEAR,
                                            month |-> month, day |-> day])]
                          ELSE [year |-> NAME_YEAR - 2000, month |-> month,
                                day |-> day, hour |-> 0, minute |-> 0,
                                second |-> 0],
                          <<>>)
                    EXCEPT !.sdAvailable = TRUE])
       /\ outcome = [io |-> IOAllOk, ack |-> TRUE, variant |-> variant]
  /\ alarmTriggered = FALSE
  /\ req = <<>>
  /\ pc = "name"
  /\ events = 0

\* updateCurrentFilename() creates the file of the date, then the card is
\* enumerated with the filter of the program: scanFiles in part_001, the
\* loop of cleanupOldFiles in the two programs of part_000, whose array is
\* kept in fileNames here
ResolveAndEnumerate ==
  /\ pc = "name"
  /\ LET first  == updateCurrentFilenameFirst(S, IOAllOk)
         second == updateCurrentFilenameSecond(S, IOAllOk)
     IN Commit(
          IF outcome.variant = "part_001"
          THEN scanFiles(updateCurrentFilename(S, IOAllOk), IOAllOk)
          ELSE IF outcome.variant = "first"
          THEN [first EXCEPT !.fileNames = LogFileNames(first.sd),
                             !.fileCount = Len(LogFileNames(first.sd))]
          ELSE [second EXCEPT !.fileNames = LogFileNamesSecond(second.sd),
                              !.fileCount =
                                Len(LogFileNamesSecond(second.sd))])
  /\ pc' = "poll"
  /\ UNCHANGED <<alarmTriggered, req, outcome, events>>

NextNames == ResolveAndEnumerate

SpecNames == InitNames /\ [][NextNames]_vars

\* C37: in each program the name of the file of a valid (month, day) is
\* accepted by the filter of the enumeration: once the file of the date
\* has been created, the enumeration of the card holds its name.
C37_CreatedNameIsEnumerated ==
  pc = "poll"
  => /\ OnCard(currentFilename)
     /\ \E i \in 1..Len(fileNames) : fileNames[i] = currentFilename

----------------------------------------------------------------------------
(* The client, 328p_client_logger.ino: its two clock calls.  In these runs *)
(* req holds the request the client sends, tx the frame that arrives       *)
(* within the two seconds (none on a timeout), outcome.ack tells whether   *)
(* radio.write of the request succeeded, outcome.call names the function   *)
(* and outcome.result is what it returns.                                  *)

\* modifyRTC(key, value) of the client
clientModifyRTC(key, value, sent, arrived) ==
  IF ~sent THEN FALSE
  ELSE IF arrived = <<>> THEN FALSE
  ELSE IF arrived[1].command # CMD_MODIFY_RTC THEN FALSE
  ELSE arrived[1].value = 1

\* getRTCInfo(key) of the client
clientGetRTCInfo(key, sent, arrived) ==
  IF ~sent THEN RTC_INVALID
  ELSE IF arrived = <<>> THEN RTC_INVALID
  ELSE IF arrived[1].command # CMD_GET_RTC_INFO \/ arrived[1].key # key
  THEN RTC_INVALID
  ELSE arrived[1].value

\* the frames that may sit in the receive queue when the client reads it
ClientArrivals ==
  {<<>>} \cup
  { <<RtcResponse(c, k, v)>> :
      c \in {CMD_MODIFY_RTC, CMD_GET_RTC_INFO, CMD_SEND_DATA},
      k \in {RTC_KEY_MONTH, RTC_KEY_DAY},
      v \in {0, 1, 12} }

\* the clock calls the client makes
ClientCalls ==
  { [call |-> "getRTCInfo", key |-> k, value |-> 0] : k \in {RTC_KEY_MONTH, RTC_KEY_DAY} } \cup
  { [call |-> "modifyRTC", key |-> k, value |-> 12] : k \in {RTC_KEY_MONTH, RTC_KEY_DAY} }

InitClient ==
  /\ \E clock \in BootClocks : Loaded(PowerOn(clock, <<>>))
  /\ alarmTriggered = FALSE
  /\ req = <<>>
  /\ outcome = NoOutcome
  /\ pc = "client"
  /\ events = 0

\* one clock call of the client, from the request to the return
ClientRtcCall ==
  /\ pc = "client"
  /\ \E c \in ClientCalls, sent \in BOOLEAN, arrived \in ClientArrivals :
       /\ req' = <<[BaseRequest EXCEPT
                      !.command = IF c.call = "modifyRTC"
                                  THEN CMD_MODIFY_RTC ELSE CMD_GET_RTC_INFO,
                      !.key = c.key, !.value = c.value]>>
       /\ tx' = arrived
       /\ outcome' =
            [io |-> IOAllOk, ack |-> sent, call |-> c.call,
             result |-> IF c.call = "modifyRTC"
                        THEN clientModifyRTC(c.key, c.value, sent, arrived)
                        ELSE clientGetRTCInfo(c.key, sent, arrived)]
  /\ pc' = "poll"
  /\ UNCHANGED <<rtc, alarm, alarmTriggered, sdAvailable, sd,
                 currentFilename, sampleCount, samplingInterval,
                 maxSamplesPerDay, fileNames, fileCount, listening, dataFile, success,
                 calls, events>>

NextClient == ClientRtcCall

SpecClient == InitClient /\ [][NextClient]_vars

\* the call of the client did not report a failure
ClientAccepted ==
  IF outcome.call = "modifyRTC" THEN outcome.result = TRUE
  ELSE outcome.result # RTC_INVALID

\* C38: a clock call of the client reports something other than failure
\* (modifyRTC true, getRTCInfo a value other than 0xFF) only when the
\* request was sent, a response arrived in time, and the command and the
\* key of the response are those of the request.
C38_AcceptsOnlyMatchingResponse ==
  (pc = "poll" /\ ClientAccepted)
  => /\ outcome.ack
     /\ tx # <<>>
     /\ tx[1].command = req[1].command
     /\ tx[1].key = req[1].key

----------------------------------------------------------------------------
(* The client, 328p_client_logger.ino: requestFileList against the server. *)
(* In these runs tx holds the frames that reach the client, in order, and  *)
(* outcome.client is the state requestFileList ends with: the global       *)
(* fileList and its locals fileCount, listStarted and listEnded.           *)

\* #define MAX_FILES 10 of the client
CLIENT_MAX_FILES == 10

\* the payload size of the radio, which is never changed from its default
PAYLOAD_SIZE == 32

\* the terminator of a C string and every byte the sender did not supply
NUL == "NUL"

\* radio.write(&frame, sizeof(frame)) as the bytes of the payload: a marker
\* is one byte, a FileListResponse is command, fileIndex, totalFiles and
\* filename[13] holding the name and its terminator; the rest of the
\* payload is padding
WireOf(frame) ==
  LET bytes == IF "filename" \in DOMAIN frame
               THEN <<frame.command, frame.fileIndex % 256,
                      frame.totalFiles % 256>> \o frame.filename \o <<NUL>>
               ELSE <<frame.command>>
  IN [k \in 1..PAYLOAD_SIZE |-> IF k <= Len(bytes) THEN bytes[k] ELSE NUL]

\* the characters of the C string at the start of bytes
RECURSIVE CString(_)
CString(bytes) ==
  IF bytes = <<>> \/ Head(bytes) = NUL THEN <<>>
  ELSE <<Head(bytes)>> \o CString(Tail(bytes))

\* fileList and the locals of requestFileList before the receive loop
ClientStart ==
  [fileList |-> [i \in 1..CLIENT_MAX_FILES |-> <<>>], fileCount |-> 0,
   listStarted |-> FALSE, listEnded |-> FALSE]

\* a client that stores entries whether the list has started or not
clientFrameStoresEarly(c, buffer) ==
  LET command   == buffer[1]
      fileIndex == buffer[2]
      filename  == CString(SubSeq(buffer, 4, 3 + MAX_FILENAME_LENGTH))
  IN IF command = CMD_LIST_START /\ ~c.listStarted
     THEN [c EXCEPT !.listStarted = TRUE,
                    !.fileList = [i \in 1..CLIENT_MAX_FILES |-> <<>>]]
     ELSE IF command = CMD_LIST_END
     THEN [c EXCEPT !.listEnded = TRUE]
     ELSE IF command = CMD_FILE_LIST
     THEN IF fileIndex < CLIENT_MAX_FILES
          THEN [c EXCEPT !.fileList[fileIndex + 1] = filename,
                         !.fileCount = IF fileIndex + 1 > c.fileCount
                                       THEN fileIndex + 1 ELSE c.fileCount]
          ELSE c
     ELSE c

\* the body of the receive loop of requestFileList for one payload
clientFrame(c, buffer) ==
  LET command   == buffer[1]
      fileIndex == buffer[2]
      filename  == CString(SubSeq(buffer, 4, 3 + MAX_FILENAME_LENGTH))
  IN IF command = CMD_LIST_START /\ ~c.listStarted
     THEN [c EXCEPT !.listStarted = TRUE,
                    !.fileList = [i \in 1..CLIENT_MAX_FILES |-> <<>>]]
     ELSE IF command = CMD_LIST_END
     THEN [c EXCEPT !.listEnded = TRUE]
     ELSE IF command = CMD_FILE_LIST /\ c.listStarted
     THEN IF fileIndex < CLIENT_MAX_FILES
          THEN [c EXCEPT !.fileList[fileIndex + 1] = filename,
                         !.fileCount = IF fileIndex + 1 > c.fileCount
                                       THEN fileIndex + 1 ELSE c.fileCount]
          ELSE c
     ELSE c

\* the receive loop of requestFileList over the frames that arrive: it
\* ends at the end marker, or by the timeout when nothing more arrives
RECURSIVE clientReceive(_, _)
clientReceive(c, frames) ==
  IF frames = <<>> \/ c.listEnded THEN c
  ELSE clientReceive(clientFrame(c, WireOf(Head(frames))), Tail(frames))

\* frames from elsewhere that may reach the client: an entry ahead of the
\* start marker, entries with an index beyond the array, a list without
\* its end marker
StrayName(c) == PREFIX \o <<"9", "9", "9", c>> \o EXT

StrayExchanges ==
  { <<FileListResponse(0, 1, StrayName("0")), Marker(CMD_LIST_START),
      FileListResponse(1, 2, StrayName("1")), Marker(CMD_LIST_END)>>,
    <<Marker(CMD_LIST_START),
      FileListResponse(CLIENT_MAX_FILES, 11, StrayName("2")),
      FileListResponse(255, 11, StrayName("3")),
      FileListResponse(0, 11, StrayName("4")), Marker(CMD_LIST_END)>>,
    <<Marker(CMD_LIST_START), FileListResponse(0, 1, StrayName("5"))>>,
    <<FileListResponse(2, 3, StrayName("6")), Marker(CMD_LIST_END)>> }

InitList ==
  /\ \E clock \in MoreBootClocks, card \in OldStores, sdOk \in BOOLEAN :
       \E arr \in SetupCleanupOutcomes(PowerOn(clock, card), sdOk, IOAllOk) :
         Loaded(setup(PowerOn(clock, card), sdOk, IOAllOk, arr))
  /\ alarmTriggered = FALSE
  /\ req = <<>>
  /\ outcome = [io |-> IOAllOk, ack |-> TRUE, client |-> ClientStart]
  /\ pc = "list"
  /\ events = 0

\* requestFileList() of the client against waitForCommand() of the
\* server: the one-byte request, scanFiles, sendFileList, and the receive
\* loop of the client over the frames sent; no frame is lost
ListExchange ==
  /\ pc = "list"
  /\ listening
  /\ \E io \in {IOAllOk, [IOAllOk EXCEPT !.root = FALSE]} :
       LET request == radioRead(<<CMD_FILE_LIST>>)
           s1 == handleCommand([S EXCEPT !.tx = <<>>, !.success = FALSE,
                                        !.calls = NoCalls],
                               request, io, TRUE)
       IN /\ Commit(s1)
          /\ req' = <<request>>
          /\ outcome' = [io |-> io, ack |-> TRUE,
                         client |-> clientReceive(ClientStart, s1.tx)]
  /\ pc' = "alarm"
  /\ UNCHANGED <<alarmTriggered, events>>

\* the receive loop of the client over frames that are not the answer of
\* the server
ClientHearsStrays ==
  /\ pc = "list"
  /\ \E frames \in StrayExchanges :
       /\ tx' = frames
       /\ outcome' = [io |-> IOAllOk, ack |-> TRUE,
                      client |-> clientReceive(ClientStart, frames)]
  /\ pc' = "alarm"
  /\ UNCHANGED <<rtc, alarm, alarmTriggered, sdAvailable, sd,
                 currentFilename, sampleCount, samplingInterval,
                 maxSamplesPerDay, fileNames, fileCount, listening, dataFile, req,
                 success, calls, events>>

NextList ==
  \/ ListExchange
  \/ ClientHearsStrays

SpecList == InitList /\ [][NextList]_vars

\* frame k of tx is an entry that follows a start marker
EntryAfterStart(k) ==
  /\ tx[k].command = CMD_FILE_LIST
  /\ \E j \in 1..(k - 1) : tx[j].command = CMD_LIST_START

\* C39: after a LIST exchange with the server in which no frame is lost
\* and the server has n matching files, n at most the capacity of the
\* client, the receive loop has ended on the end marker, the count of the
\* client is n and fileList[0..n-1] holds the names the server enumerated,
\* in its order; and whatever frames arrive, every name in fileList is
\* that of an entry received after the start marker whose fileIndex is the
\* place it is stored at, and the count is at most the capacity.
C39_ClientListEqualsServerList ==
  pc = "alarm"
  => LET c == outcome.client
     IN /\ (req # <<>> /\ fileCount <= CLIENT_MAX_FILES)
           => /\ c.listEnded
              /\ c.fileCount = fileCount
              /\ \A i \in 1..fileCount : c.fileList[i] = fileNames[i]
        /\ c.fileCount <= CLIENT_MAX_FILES
        /\ Len(c.fileList) = CLIENT_MAX_FILES
        /\ \A i \in 1..CLIENT_MAX_FILES :
             c.fileList[i] # <<>>
             => \E k \in 1..Len(tx) :
                  /\ EntryAfterStart(k)
                  /\ tx[k].fileIndex = i - 1
                  /\ tx[k].filename = c.fileList[i]

\* the server listed two files and the client holds both, in order
C39_Witness ==
  /\ pc = "alarm"
  /\ req # <<>>
  /\ fileCount = 2
  /\ outcome.client.fileCount = 2
  /\ outcome.client.listEnded
  /\ outcome.client.fileList[1] = fileNames[1]
  /\ outcome.client.fileList[2] = fileNames[2]
  /\ fileNames[1] # fileNames[2]

----------------------------------------------------------------------------
(* The shared file handle *)

\* C40: whenever control is in loop(), between two of its steps, the shared
\* handle dataFile is closed: every open in updateCurrentFilename,
\* takeMeasurement and sendFile was followed by a close, on the paths with a
\* failed open, a failed write and a missing file as well
C40_HandleClosedInLoop ==
  pc \in {"poll", "alarm"} => dataFile = FALSE

\* sendFile opened the requested file, sent a frame from it, and control is
\* back in loop()
C40_Witness ==
  /\ Handled
  /\ req[1].command = CMD_REQUEST_DATA
  /\ outcome.io.read
  /\ Len(tx) >= 1
  /\ dataFile = FALSE

====
